---- MODULE Spec2Model ----
(***************************************************************************)
(* The four CloudFormation custom-resource Lambdas of the Detective /      *)
(* Security Lake integration, as one state machine:                        *)
(*   ShareAcceptor              src/unnamed/part_004 (lines 1-216)         *)
(*   CatalogDatabaseProvisioner src/unnamed/part_002                       *)
(*   TablePermissionGranter     src/glue-table-custom-resource/index.mjs   *)
(*   ParameterPublisher         src/ssm-parameter-custom-resource/index.mjs*)
(* The provider services (RAM, Glue, Lake Formation, SSM) are the shared   *)
(* state; one action is one stretch of a handler between two awaits, the   *)
(* remote call it ends with included.                                      *)
(***************************************************************************)
EXTENDS Naturals, Sequences, FiniteSets, TLC

(***************************************************************************)
(* Strings are sequences of one-character strings, so that the regular     *)
(* expressions and the split() calls of the handlers are computed.         *)
(***************************************************************************)
\* JavaScript's undefined (a missing property); no string equals it
Undefined == <<"#undefined">>

\* ---- literals of the regular expressions
\* "arn:aws"
LitArnAws ==
    <<"a","r","n",":","a","w","s">>
\* ":ram:"
LitRam ==
    <<":","r","a","m",":">>
\* ":glue:"
LitGlue ==
    <<":","g","l","u","e",":">>
\* ":cloudformation:"
LitCloudformation ==
    <<":","c","l","o","u","d","f","o","r","m","a","t","i","o","n",":">>
\* ":iam::"
LitIam ==
    <<":","i","a","m",":",":">>
\* "database/"
LitDatabase ==
    <<"d","a","t","a","b","a","s","e","/">>
\* ":database/"
LitColonDatabase ==
    <<":","d","a","t","a","b","a","s","e","/">>
\* "table/"
LitTable ==
    <<"t","a","b","l","e","/">>
\* ---- String(undefined), what RegExp.prototype.test sees for a missing property
\* "undefined"
StrUndefined ==
    <<"u","n","d","e","f","i","n","e","d">>
\* ---- resource share ARNs offered as event.ResourceProperties.ResourceShareArn
\* "arn:aws:ram:us-west-2:111111111111:resource-share/abc"
ShareArnOK ==
    <<"a","r","n",":","a","w","s",":","r","a","m",":","u","s","-","w","e","s","t","-","2",":","1","1","1","1","1","1","1","1","1","1","1","1",":","r","e","s","o","u","r","c","e","-","s","h","a","r","e","/","a","b","c">>
\* "arn:aws-cn:ram:cn-north-1:111111111111:resource-share/zzz"
ShareArnOther ==
    <<"a","r","n",":","a","w","s","-","c","n",":","r","a","m",":","c","n","-","n","o","r","t","h","-","1",":","1","1","1","1","1","1","1","1","1","1","1","1",":","r","e","s","o","u","r","c","e","-","s","h","a","r","e","/","z","z","z">>
\* "arn:aws:ram:nowhere:111111111111:resource-share/abc"
ShareArnBadRegion ==
    <<"a","r","n",":","a","w","s",":","r","a","m",":","n","o","w","h","e","r","e",":","1","1","1","1","1","1","1","1","1","1","1","1",":","r","e","s","o","u","r","c","e","-","s","h","a","r","e","/","a","b","c">>
\* "arn:aws:s3:::ram:bucket"
ShareArnWrongService ==
    <<"a","r","n",":","a","w","s",":","s","3",":",":",":","r","a","m",":","b","u","c","k","e","t">>
\* "arn:aws:ram:"
ShareArnNoRest ==
    <<"a","r","n",":","a","w","s",":","r","a","m",":">>
\* "arn:aws-partition1:ram:us-west-2:111111111111:resource-share/abc"
ShareArnLongPartition ==
    <<"a","r","n",":","a","w","s","-","p","a","r","t","i","t","i","o","n","1",":","r","a","m",":","u","s","-","w","e","s","t","-","2",":","1","1","1","1","1","1","1","1","1","1","1","1",":","r","e","s","o","u","r","c","e","-","s","h","a","r","e","/","a","b","c">>
\* ---- resource ARNs the share listing can return
\* "arn:aws:glue:us-west-2:222222222222:database/shared_db"
DbArnShared ==
    <<"a","r","n",":","a","w","s",":","g","l","u","e",":","u","s","-","w","e","s","t","-","2",":","2","2","2","2","2","2","2","2","2","2","2","2",":","d","a","t","a","b","a","s","e","/","s","h","a","r","e","d","_","d","b">>
\* "arn:aws:glue:us-west-2:333333333333:database/other_db"
DbArnSecond ==
    <<"a","r","n",":","a","w","s",":","g","l","u","e",":","u","s","-","w","e","s","t","-","2",":","3","3","3","3","3","3","3","3","3","3","3","3",":","d","a","t","a","b","a","s","e","/","o","t","h","e","r","_","d","b">>
\* "arn:aws:s3:::database/shared_db"
DbArnNotGlue ==
    <<"a","r","n",":","a","w","s",":","s","3",":",":",":","d","a","t","a","b","a","s","e","/","s","h","a","r","e","d","_","d","b">>
\* "arn:aws:glue:us-west-2:database/shared_db"
DbArnShort ==
    <<"a","r","n",":","a","w","s",":","g","l","u","e",":","u","s","-","w","e","s","t","-","2",":","d","a","t","a","b","a","s","e","/","s","h","a","r","e","d","_","d","b">>
\* "arn:aws:glue:us-west-2:222222222222:extra:database/shared_db"
DbArnExtra ==
    <<"a","r","n",":","a","w","s",":","g","l","u","e",":","u","s","-","w","e","s","t","-","2",":","2","2","2","2","2","2","2","2","2","2","2","2",":","e","x","t","r","a",":","d","a","t","a","b","a","s","e","/","s","h","a","r","e","d","_","d","b">>
\* "arn:aws:glue:us-west-2:222222222222:table/shared_db/cloud_trail"
TableArn1 ==
    <<"a","r","n",":","a","w","s",":","g","l","u","e",":","u","s","-","w","e","s","t","-","2",":","2","2","2","2","2","2","2","2","2","2","2","2",":","t","a","b","l","e","/","s","h","a","r","e","d","_","d","b","/","c","l","o","u","d","_","t","r","a","i","l">>
\* "arn:aws:glue:us-west-2:222222222222:table/shared_db/vpc_flow"
TableArn2 ==
    <<"a","r","n",":","a","w","s",":","g","l","u","e",":","u","s","-","w","e","s","t","-","2",":","2","2","2","2","2","2","2","2","2","2","2","2",":","t","a","b","l","e","/","s","h","a","r","e","d","_","d","b","/","v","p","c","_","f","l","o","w">>
\* "arn:aws:glue:us-west-2:222222222222:table/shared_db"
TableArnBad ==
    <<"a","r","n",":","a","w","s",":","g","l","u","e",":","u","s","-","w","e","s","t","-","2",":","2","2","2","2","2","2","2","2","2","2","2","2",":","t","a","b","l","e","/","s","h","a","r","e","d","_","d","b">>
\* "arn:aws:ram:us-west-2:222222222222:resource-share-invitation/i1"
InvitationArn1 ==
    <<"a","r","n",":","a","w","s",":","r","a","m",":","u","s","-","w","e","s","t","-","2",":","2","2","2","2","2","2","2","2","2","2","2","2",":","r","e","s","o","u","r","c","e","-","s","h","a","r","e","-","i","n","v","i","t","a","t","i","o","n","/","i","1">>
\* "arn:aws:ram:us-west-2:222222222222:resource-share-invitation/i2"
InvitationArn2 ==
    <<"a","r","n",":","a","w","s",":","r","a","m",":","u","s","-","w","e","s","t","-","2",":","2","2","2","2","2","2","2","2","2","2","2","2",":","r","e","s","o","u","r","c","e","-","s","h","a","r","e","-","i","n","v","i","t","a","t","i","o","n","/","i","2">>
\* ---- stack ids, principals, roles
\* "arn:aws:cloudformation:us-west-2:111111111111:stack/sli/guid"
StackIdOK ==
    <<"a","r","n",":","a","w","s",":","c","l","o","u","d","f","o","r","m","a","t","i","o","n",":","u","s","-","w","e","s","t","-","2",":","1","1","1","1","1","1","1","1","1","1","1","1",":","s","t","a","c","k","/","s","l","i","/","g","u","i","d">>
\* "arn:aws:cloudformation:us-west-2:444444444444:stack/sli/guid"
StackIdOther ==
    <<"a","r","n",":","a","w","s",":","c","l","o","u","d","f","o","r","m","a","t","i","o","n",":","u","s","-","w","e","s","t","-","2",":","4","4","4","4","4","4","4","4","4","4","4","4",":","s","t","a","c","k","/","s","l","i","/","g","u","i","d">>
\* "arn:aws:cloudformation:us-west-2:1111:stack/sli/guid"
StackIdShortAccount ==
    <<"a","r","n",":","a","w","s",":","c","l","o","u","d","f","o","r","m","a","t","i","o","n",":","u","s","-","w","e","s","t","-","2",":","1","1","1","1",":","s","t","a","c","k","/","s","l","i","/","g","u","i","d">>
\* "arn:aws:iam::111111111111:role/analyst"
Principal1 ==
    <<"a","r","n",":","a","w","s",":","i","a","m",":",":","1","1","1","1","1","1","1","1","1","1","1","1",":","r","o","l","e","/","a","n","a","l","y","s","t">>
\* "arn:aws:iam::111111111111:user/bob"
Principal2 ==
    <<"a","r","n",":","a","w","s",":","i","a","m",":",":","1","1","1","1","1","1","1","1","1","1","1","1",":","u","s","e","r","/","b","o","b">>
\* "arn:aws:iam::999999999999:role/analyst"
PrincipalForeign ==
    <<"a","r","n",":","a","w","s",":","i","a","m",":",":","9","9","9","9","9","9","9","9","9","9","9","9",":","r","o","l","e","/","a","n","a","l","y","s","t">>
\* "arn:aws-cn:iam::111111111111:role/analyst"
PrincipalCn ==
    <<"a","r","n",":","a","w","s","-","c","n",":","i","a","m",":",":","1","1","1","1","1","1","1","1","1","1","1","1",":","r","o","l","e","/","a","n","a","l","y","s","t">>
\* "arn:aws:iam::999999999999:role/arn:aws:iam::111111111111:/r": a role of
\* account 999999999999 whose path holds the ARN prefix of account 111111111111
PrincipalForeignPath ==
    <<"a","r","n",":","a","w","s",":","i","a","m",":",":","9","9","9","9","9","9","9","9","9","9","9","9",":","r","o","l","e","/","a","r","n",":","a","w","s",":","i","a","m",":",":","1","1","1","1","1","1","1","1","1","1","1","1",":","/","r">>
\* "arn:aws:iam::111111111111:role/GlueTablesLambdaRole"
LambdaRole ==
    <<"a","r","n",":","a","w","s",":","i","a","m",":",":","1","1","1","1","1","1","1","1","1","1","1","1",":","r","o","l","e","/","G","l","u","e","T","a","b","l","e","s","L","a","m","b","d","a","R","o","l","e">>
\* "arn:aws:iam::111111111111:role/Admin"
Admin0 ==
    <<"a","r","n",":","a","w","s",":","i","a","m",":",":","1","1","1","1","1","1","1","1","1","1","1","1",":","r","o","l","e","/","A","d","m","i","n">>
\* ---- regions and bucket names
\* "us-east-1"
RegionHome ==
    <<"u","s","-","e","a","s","t","-","1">>
\* "useast1"
RegionBad ==
    <<"u","s","e","a","s","t","1">>
\* "athena-results-1"
BucketOK ==
    <<"a","t","h","e","n","a","-","r","e","s","u","l","t","s","-","1">>
\* "Athena_Results"
BucketBad ==
    <<"A","t","h","e","n","a","_","R","e","s","u","l","t","s">>

Lower ==
    {"a","b","c","d","e","f","g","h","i","j","k","l","m",
     "n","o","p","q","r","s","t","u","v","w","x","y","z"}
Upper ==
    {"A","B","C","D","E","F","G","H","I","J","K","L","M",
     "N","O","P","Q","R","S","T","U","V","W","X","Y","Z"}
Digit == {"0","1","2","3","4","5","6","7","8","9"}
\* \w
WordChar == Lower \cup Upper \cup Digit \cup {"_"}
\* [-\w] in a regular-expression literal or in a string with "\\w"
DashWord == WordChar \cup {"-"}
\* [-\w] written inside a template literal: the escape \w there is the letter
\* w, so the class the RegExp constructor sees is [-w]
DashW == {"-", "w"}
LowerDigit == Lower \cup Digit
LineTerminator == {"\n", "\r"}
\* . (no s flag)
Dot(c) == c \notin LineTerminator

\* String(v), the coercion RegExp.prototype.test and exec apply to their argument
ToStr(v) == IF v = Undefined THEN StrUndefined ELSE v

\* the literal lit stands in s at position i
IsAt(s, i, lit) ==
    /\ i >= 1
    /\ i + Len(lit) - 1 <= Len(s)
    /\ \A k \in 1..Len(lit) : s[i + k - 1] = lit[k]

AllDot(s, a, b) == \A j \in a..b : Dot(s[j])

\* the first position q >= p with s[q] = c, or 0
FirstIndex(s, p, c) ==
    IF \E q \in p..Len(s) : s[q] = c
    THEN CHOOSE q \in p..Len(s) : s[q] = c /\ \A r \in p..(q - 1) : s[r] # c
    ELSE 0

\* the {0,10} of every ARN pattern
MaxPartitionSuffix == 10

\* arn:aws<cls>{0,10}?<lit> matched from position i of s: the positions right
\* after the match (at most one, as no class holds the colon lit begins with)
AfterArnPrefix(s, i, cls, lit) ==
    { i + Len(LitArnAws) + k + Len(lit) : k \in
        { k \in 0..MaxPartitionSuffix :
            /\ IsAt(s, i, LitArnAws)
            /\ \A j \in (i + Len(LitArnAws))..(i + Len(LitArnAws) + k - 1) :
                  j <= Len(s) /\ s[j] \in cls
            /\ IsAt(s, i + Len(LitArnAws) + k, lit) } }

\* String.prototype.split on a one-character separator
RECURSIVE Split(_, _)
Split(s, c) ==
    LET q == FirstIndex(s, 1, c)
    IN  IF q = 0 THEN <<s>>
        ELSE <<SubSeq(s, 1, q - 1)>> \o Split(SubSeq(s, q + 1, Len(s)), c)

\* arr[n] of a JavaScript array (0-based; undefined past the end)
At(arr, n) == IF n + 1 <= Len(arr) THEN arr[n + 1] ELSE Undefined

\* [...new Set(xs)]: the distinct elements in first-occurrence order
RECURSIVE Unique(_)
Unique(xs) ==
    IF xs = <<>> THEN <<>>
    ELSE LET init == Unique(SubSeq(xs, 1, Len(xs) - 1))
             last == xs[Len(xs)]
         IN  IF \E k \in 1..Len(init) : init[k] = last THEN init
             ELSE Append(init, last)

Range(xs) == { xs[k] : k \in 1..Len(xs) }

\* /^arn:aws[-\w]{0,10}?:ram:.+/.test(arn)
RESOURCE_SHARE_ARN_REGEX(arn) ==
    LET s == ToStr(arn)
    IN  \E p \in AfterArnPrefix(s, 1, DashWord, LitRam) : p <= Len(s) /\ Dot(s[p])

\* /^arn:aws[-\w]{0,10}?:ram:([^:]+):.+/.exec(arn): the capture, or Undefined
\* for no match
RegionCapture(arn) ==
    LET s == ToStr(arn)
        ps == AfterArnPrefix(s, 1, DashWord, LitRam)
    IN  IF ps = {} THEN Undefined
        ELSE LET p == CHOOSE p \in ps : TRUE
                 q == FirstIndex(s, p, ":")
             IN  IF q > p /\ q + 1 <= Len(s) /\ Dot(s[q + 1])
                 THEN SubSeq(s, p, q - 1)
                 ELSE Undefined

\* /[a-z]+(-[a-z]+)+-\d/.test(region): unanchored, so it matches exactly when
\* some letter, "-", letters, "-", digit stand in the string
RegionRegex(region) ==
    LET s == ToStr(region)
    IN  \E i \in 1..Len(s), j \in 1..Len(s) :
            /\ s[i] \in Lower
            /\ i + 1 <= Len(s) /\ s[i + 1] = "-"
            /\ j >= i + 2
            /\ \A k \in (i + 2)..j : s[k] \in Lower
            /\ j + 2 <= Len(s)
            /\ s[j + 1] = "-"
            /\ s[j + 2] \in Digit

\* /^arn:aws[-\w]{0,10}?:glue:.+:database\/.+/.test(arn)
GlueDatabaseRegex(arn) ==
    LET s == ToStr(arn)
    IN  \E p \in AfterArnPrefix(s, 1, DashWord, LitGlue) :
          \E m \in (p + 1)..Len(s) :
            /\ AllDot(s, p, m - 1)
            /\ IsAt(s, m, LitColonDatabase)
            /\ m + Len(LitColonDatabase) <= Len(s)
            /\ Dot(s[m + Len(LitColonDatabase)])

\* the two [^:]+: segments after the service of a Glue ARN: the position
\* right after the second one's colon, or 0
AfterRegionAccount(s, p) ==
    LET q1 == FirstIndex(s, p, ":")
        q2 == IF q1 > p THEN FirstIndex(s, q1 + 1, ":") ELSE 0
    IN  IF q1 > p /\ q2 > q1 + 1 THEN q2 + 1 ELSE 0

\* DATABASE_NAME_CAPTURE_REGEX.exec(arn): the capture, or Undefined
DATABASE_NAME_CAPTURE_REGEX(arn) ==
    LET s == ToStr(arn)
        ps == AfterArnPrefix(s, 1, DashWord, LitGlue)
    IN  IF ps = {} THEN Undefined
        ELSE LET d == AfterRegionAccount(s, CHOOSE p \in ps : TRUE)
                 r == d + Len(LitDatabase)
             IN  IF d > 0 /\ IsAt(s, d, LitDatabase) /\ r <= Len(s)
                    /\ AllDot(s, r, Len(s))
                 THEN SubSeq(s, r, Len(s))
                 ELSE Undefined

\* TABLE_NAME_CAPTURE_REGEX.exec(arn): the capture, or Undefined
TABLE_NAME_CAPTURE_REGEX(arn) ==
    LET s == ToStr(arn)
        ps == AfterArnPrefix(s, 1, DashWord, LitGlue)
    IN  IF ps = {} THEN Undefined
        ELSE LET d == AfterRegionAccount(s, CHOOSE p \in ps : TRUE)
                 t == d + Len(LitTable)
                 slash == IF d > 0 THEN FirstIndex(s, t, "/") ELSE 0
                 r == slash + 1
             IN  IF d > 0 /\ IsAt(s, d, LitTable) /\ slash > t /\ r <= Len(s)
                    /\ AllDot(s, r, Len(s))
                 THEN SubSeq(s, r, Len(s))
                 ELSE Undefined

\* the \d{12} of ACCOUNT_ID_FROM_STACK_REGEX
AccountIdDigits == 12

\* ACCOUNT_ID_FROM_STACK_REGEX.exec(stackId): the first capture, or Undefined
ACCOUNT_ID_FROM_STACK_REGEX(stackId) ==
    LET s == ToStr(stackId)
        ps == AfterArnPrefix(s, 1, DashWord, LitCloudformation)
    IN  IF ps = {} THEN Undefined
        ELSE LET p == CHOOSE p \in ps : TRUE
                 q == FirstIndex(s, p, ":")
                 e == q + AccountIdDigits + 1
             IN  IF /\ q > p
                    /\ e + 1 <= Len(s)
                    /\ \A j \in (q + 1)..(e - 1) : s[j] \in Digit
                    /\ s[e] = ":"
                    /\ AllDot(s, e + 1, Len(s))
                 THEN SubSeq(s, q + 1, e - 1)
                 ELSE Undefined

\* new RegExp(`arn:aws[-\w]{0,10}?:iam::${accountId}:.+`).test(principal):
\* unanchored, and with the class [-w]
IamPrincipalRegex(principal, accountId) ==
    LET s == ToStr(principal)
    IN  \E i \in 1..Len(s) :
          \E p \in AfterArnPrefix(s, i, DashW, LitIam \o accountId \o <<":">>) :
            p <= Len(s) /\ Dot(s[p])

\* the {1,61} of the bucket pattern
BucketMiddleMin == 1
BucketMiddleMax == 61

\* /^[a-z0-9][a-z0-9-]{1,61}[a-z0-9]$/.test(bucketName)
BucketRegex(bucketName) ==
    LET s == ToStr(bucketName)
    IN  /\ Len(s) >= BucketMiddleMin + 2
        /\ Len(s) <= BucketMiddleMax + 2
        /\ s[1] \in LowerDigit
        /\ s[Len(s)] \in LowerDigit
        /\ \A j \in 2..(Len(s) - 1) : s[j] \in LowerDigit \cup {"-"}

\* /.+/.test(v): some character that is no line terminator
NonEmptyRegex(v) ==
    LET s == ToStr(v)
    IN  \E j \in 1..Len(s) : Dot(s[j])

(***************************************************************************)
(* State.                                                                  *)
(***************************************************************************)
VARIABLES
    inv,               \* the invocations: [Inv -> record], see Idle
    invitations,       \* RAM: the invitations of the share ShareArnOK, as the lookup lists them
    resources,         \* RAM: the resources of the share ShareArnOK, as the listing lists them
    glueDatabases,     \* Glue: the databases of the local catalog
    dataLakeSettings,  \* Lake Formation: the data lake settings
    permissions,       \* Lake Formation: the SELECT grants on table wildcards
    parameters         \* SSM: parameter name -> value, Undefined for none

vars == <<inv, invitations, resources, glueDatabases, dataLakeSettings,
          permissions, parameters>>

provider == <<invitations, resources, glueDatabases, dataLakeSettings,
              permissions, parameters>>

\* the number of invocations of one behaviour
NumInv == 2
Inv == 1..NumInv

ShareAcceptor == "ShareAcceptor"
CatalogDatabaseProvisioner == "CatalogDatabaseProvisioner"
TablePermissionGranter == "TablePermissionGranter"
ParameterPublisher == "ParameterPublisher"
Components ==
    {ShareAcceptor, CatalogDatabaseProvisioner, TablePermissionGranter,
     ParameterPublisher}

RequestTypes == {"Create", "Update", "Delete", "Replace"}

\* LakeFormationPrincipals that is no array
NotAnArray == [isArray |-> FALSE, items |-> <<>>]
ArrayOf(xs) == [isArray |-> TRUE, items |-> xs]

NoSettings == [DataLakeAdmins |-> <<>>, CreateTableDefaultPermissions |-> "none"]

\* the provider state as one value, to compare before and after
ProviderState ==
    [invitations |-> invitations, resources |-> resources,
     glueDatabases |-> glueDatabases, dataLakeSettings |-> dataLakeSettings,
     permissions |-> permissions, parameters |-> parameters]

NoEvent ==
    [RequestType |-> "none", ResourceShareArn |-> Undefined,
     LakeFormationPrincipals |-> NotAnArray, LambdaRoleArn |-> Undefined,
     StackId |-> Undefined, DTRegion |-> Undefined,
     AthenaResultsBucket |-> Undefined, PropStackId |-> Undefined,
     PhysicalResourceId |-> Undefined]

\* context.logStreamName of invocation i
LogStreamName(i) == <<"l","o","g","/">> \o [k \in 1..i |-> "i"]

\* an execution environment of the Lambda function comp, before its event
Idle(comp, i) ==
    [comp |-> comp, pc |-> "idle", event |-> NoEvent,
     logStreamName |-> LogStreamName(i),
     \* [result, reason] and physicalResourceId of handler
     result |-> "none", reason |-> Undefined, physicalResourceId |-> Undefined,
     \* the remote calls issued, in order: [op, arg, out]
     calls |-> <<>>,
     \* the response bodies written to the ResponseURL, and the context.done() calls
     sent |-> <<>>, done |-> 0,
     \* locals of startCreate / createParameters that live across an await
     invitationArn |-> Undefined,
     account |-> Undefined, databaseName |-> Undefined,
     principals |-> <<>>, existingDataLakeSettings |-> NoSettings,
     newDataLakeSettings |-> NoSettings, temporaryDataLakeSettings |-> NoSettings,
     k |-> 0, tableNameList |-> <<>>,
     \* the stack ids console.error reported on a parameter collision
     logged |-> <<>>,
     \* the provider state when the event arrived
     pre |-> ProviderState]

Succeed(r) == [r EXCEPT !.pc = "respond", !.result = "SUCCESS"]
Call(r, op, arg, out) ==
    [r EXCEPT !.calls = Append(@, [op |-> op, arg |-> arg, out |-> out])]

\* the outcomes of a remote call that the provider decides: it answers, or it
\* fails with an error no handler downgrades (throttling, access denied, ...)
Answers == {"ok", "ProviderError"}

(***************************************************************************)
(* The reasons: what the handler hands to sendResponse is a string, an     *)
(* Error the handler threw or an exception of a client, named here by its  *)
(* message or its name; composeReason puts it into a template literal.     *)
(***************************************************************************)
\* "Error: "
LitErrorPrefix ==
    <<"E","r","r","o","r",":"," ">>

\* `${exception}` of new Error(message)
Thrown(message) == LitErrorPrefix \o message

\* "Invalid region: "
LitInvalidRegion ==
    <<"I","n","v","a","l","i","d"," ","r","e","g","i","o","n",":"," ">>

\* `${exception}` of the Error of validateRegion
InvalidRegion(region) == Thrown(LitInvalidRegion \o ToStr(region) \o <<".">>)

\* "Invalid IAM principal, or IAM principal does not belong to account "
LitInvalidIAMPrincipal ==
    <<"I","n","v","a","l","i","d"," ","I","A","M"," ","p","r","i","n","c","i","p","a","l",",",
      " ","o","r"," ","I","A","M"," ","p","r","i","n","c","i","p","a","l"," ","d","o","e","s",
      " ","n","o","t"," ","b","e","l","o","n","g"," ","t","o"," ","a","c","c","o","u","n","t",
      " ">>

\* `${exception}` of the Error of validateIAMPrincipal
InvalidIAMPrincipal(accountId) ==
    Thrown(LitInvalidIAMPrincipal \o ToStr(accountId) \o <<".">>)

\* "Glue database discovered via RAM does not match expected ARN format: "
LitArnFormat ==
    <<"G","l","u","e"," ","d","a","t","a","b","a","s","e"," ","d","i","s","c","o","v","e","r",
      "e","d"," ","v","i","a"," ","R","A","M"," ","d","o","e","s"," ","n","o","t"," ","m","a",
      "t","c","h"," ","e","x","p","e","c","t","e","d"," ","A","R","N"," ","f","o","r","m","a",
      "t",":"," ">>

\* `${exception}` of the Error of getDatabaseArnParts
UnexpectedArnFormat(glueDatabaseArn) ==
    Thrown(LitArnFormat \o ToStr(glueDatabaseArn) \o <<".">>)

\* `${reason}`: a string as it is, an Error as "Error: " and its message, an
\* exception of a client as its name, ": " and the message of the provider
ReasonText(reason) ==
    CASE reason = "RequestType is Update which is not supported." ->
            <<"R","e","q","u","e","s","t","T","y","p","e"," ","i","s"," ","U","p","d","a","t",
              "e"," ","w","h","i","c","h"," ","i","s"," ","n","o","t"," ","s","u","p","p","o",
              "r","t","e","d",".">>
      [] reason = "Received unknown RequestType." ->
            <<"R","e","c","e","i","v","e","d"," ","u","n","k","n","o","w","n"," ","R","e","q",
              "u","e","s","t","T","y","p","e"," ","R","e","p","l","a","c","e",".">>
      [] reason = "Unrecognized cloudformation request type received." ->
            <<"U","n","r","e","c","o","g","n","i","z","e","d"," ","c","l","o","u","d","f","o",
              "r","m","a","t","i","o","n"," ","r","e","q","u","e","s","t"," ","t","y","p","e",
              " ","r","e","c","e","i","v","e","d","."," ","T","h","i","s"," ","c","u","s","t",
              "o","m"," ","r","e","s","o","u","r","c","e"," ","o","n","l","y"," ","s","u","p",
              "p","o","r","t","s"," ","c","r","e","a","t","i","o","n"," ","a","n","d"," ","d",
              "e","l","e","t","i","o","n",".">>
      [] reason = "Invitation has expired." ->
            Thrown(
                <<"I","n","v","i","t","a","t","i","o","n"," ","h","a","s"," ","e","x","p","i",
                  "r","e","d",".">>)
      [] reason = "Invitation has already been rejected." ->
            Thrown(
                <<"I","n","v","i","t","a","t","i","o","n"," ","h","a","s"," ","a","l","r","e",
                  "a","d","y"," ","b","e","e","n"," ","r","e","j","e","c","t","e","d",".">>)
      [] reason = "Invalid ResourceShareArn." ->
            Thrown(
                <<"I","n","v","a","l","i","d"," ","R","e","s","o","u","r","c","e","S","h","a",
                  "r","e","A","r","n",".">>)
      [] reason = "Could not parse region from resource share arn." ->
            Thrown(
                <<"C","o","u","l","d"," ","n","o","t"," ","p","a","r","s","e"," ","r","e","g",
                  "i","o","n"," ","f","r","o","m"," ","r","e","s","o","u","r","c","e"," ","s",
                  "h","a","r","e"," ","a","r","n",".">>)
      [] reason = "Invalid ResourceShareArn: ResourceShareInvitationArn not found." ->
            Thrown(
                <<"I","n","v","a","l","i","d"," ","R","e","s","o","u","r","c","e","S","h","a",
                  "r","e","A","r","n",":"," ","R","e","s","o","u","r","c","e","S","h","a","r",
                  "e","I","n","v","i","t","a","t","i","o","n","A","r","n"," ","n","o","t"," ",
                  "f","o","u","n","d",".">>)
      [] reason = "Found no resources associated with resource share ARN." ->
            Thrown(
                <<"F","o","u","n","d"," ","n","o"," ","r","e","s","o","u","r","c","e","s"," ",
                  "a","s","s","o","c","i","a","t","e","d"," ","w","i","t","h"," ","r","e","s",
                  "o","u","r","c","e"," ","s","h","a","r","e"," ","A","R","N",".">>)
      [] reason = "Could not parse account id from stack ID." ->
            Thrown(
                <<"C","o","u","l","d"," ","n","o","t"," ","p","a","r","s","e"," ","a","c","c",
                  "o","u","n","t"," ","i","d"," ","f","r","o","m"," ","s","t","a","c","k"," ",
                  "I","D",".">>)
      [] reason = "LakeFormationPrincipals is not an array." ->
            Thrown(
                <<"L","a","k","e","F","o","r","m","a","t","i","o","n","P","r","i","n","c","i",
                  "p","a","l","s"," ","i","s"," ","n","o","t"," ","a","n"," ","a","r","r","a",
                  "y",".">>)
      [] reason = "Could not parse database from database arn." ->
            Thrown(
                <<"C","o","u","l","d"," ","n","o","t"," ","p","a","r","s","e"," ","d","a","t",
                  "a","b","a","s","e"," ","f","r","o","m"," ","d","a","t","a","b","a","s","e",
                  " ","a","r","n",".">>)
      [] reason = "Found no database associated with resource share ARN." ->
            Thrown(
                <<"F","o","u","n","d"," ","n","o"," ","d","a","t","a","b","a","s","e"," ","a",
                  "s","s","o","c","i","a","t","e","d"," ","w","i","t","h"," ","r","e","s","o",
                  "u","r","c","e"," ","s","h","a","r","e"," ","A","R","N",".">>)
      [] reason = "Invalid bucket name." ->
            Thrown(
                <<"I","n","v","a","l","i","d"," ","b","u","c","k","e","t"," ","n","a","m","e",
                  ".">>)
      [] reason = "Invalid stackId." ->
            Thrown(
                <<"I","n","v","a","l","i","d"," ","s","t","a","c","k","I","d",".">>)
      [] reason = "Could not parse table name from table arn." ->
            Thrown(
                <<"C","o","u","l","d"," ","n","o","t"," ","p","a","r","s","e"," ","t","a","b",
                  "l","e"," ","n","a","m","e"," ","f","r","o","m"," ","t","a","b","l","e"," ",
                  "a","r","n",".">>)
      [] reason = "Found no table associated with resource share ARN." ->
            Thrown(
                <<"F","o","u","n","d"," ","n","o"," ","t","a","b","l","e"," ","a","s","s","o",
                  "c","i","a","t","e","d"," ","w","i","t","h"," ","r","e","s","o","u","r","c",
                  "e"," ","s","h","a","r","e"," ","A","R","N",".">>)
      [] reason = "TypeError" ->
            <<"T","y","p","e","E","r","r","o","r",":"," ","C","a","n","n","o","t"," ","r","e",
              "a","d"," ","p","r","o","p","e","r","t","i","e","s"," ","o","f"," ","u","n","d",
              "e","f","i","n","e","d"," ","(","r","e","a","d","i","n","g"," ","'","s","p","l",
              "i","t","'",")">>
      [] reason = "AlreadyExistsException" ->
            <<"A","l","r","e","a","d","y","E","x","i","s","t","s","E","x","c","e","p","t","i",
              "o","n",":"," ","D","a","t","a","b","a","s","e"," ","a","l","r","e","a","d","y",
              " ","e","x","i","s","t","s",".">>
      [] reason = "ProviderError" ->
            <<"P","r","o","v","i","d","e","r","E","r","r","o","r",":"," ","T","h","e"," ","r",
              "e","q","u","e","s","t"," ","c","o","u","l","d"," ","n","o","t"," ","b","e"," ",
              "s","e","r","v","e","d",".">>
      [] reason = "ResourceShareInvitationAlreadyAcceptedException" ->
            <<"R","e","s","o","u","r","c","e","S","h","a","r","e","I","n","v","i","t","a","t",
              "i","o","n","A","l","r","e","a","d","y","A","c","c","e","p","t","e","d","E","x",
              "c","e","p","t","i","o","n",":"," ","T","h","e"," ","i","n","v","i","t","a","t",
              "i","o","n"," ","w","a","s"," ","a","l","r","e","a","d","y"," ","a","c","c","e",
              "p","t","e","d",".">>
      [] reason = "ResourceShareInvitationAlreadyRejectedException" ->
            <<"R","e","s","o","u","r","c","e","S","h","a","r","e","I","n","v","i","t","a","t",
              "i","o","n","A","l","r","e","a","d","y","R","e","j","e","c","t","e","d","E","x",
              "c","e","p","t","i","o","n",":"," ","T","h","e"," ","i","n","v","i","t","a","t",
              "i","o","n"," ","w","a","s"," ","a","l","r","e","a","d","y"," ","r","e","j","e",
              "c","t","e","d",".">>
      [] reason = "ResourceShareInvitationExpiredException" ->
            <<"R","e","s","o","u","r","c","e","S","h","a","r","e","I","n","v","i","t","a","t",
              "i","o","n","E","x","p","i","r","e","d","E","x","c","e","p","t","i","o","n",":",
              " ","T","h","e"," ","i","n","v","i","t","a","t","i","o","n"," ","i","s"," ","e",
              "x","p","i","r","e","d",".">>
      [] reason = "ResourceShareInvitationArnNotFoundException" ->
            <<"R","e","s","o","u","r","c","e","S","h","a","r","e","I","n","v","i","t","a","t",
              "i","o","n","A","r","n","N","o","t","F","o","u","n","d","E","x","c","e","p","t",
              "i","o","n",":"," ","T","h","e"," ","i","n","v","i","t","a","t","i","o","n"," ",
              "w","a","s"," ","n","o","t"," ","f","o","u","n","d",".">>
      [] reason = "AccessDeniedException" ->
            <<"A","c","c","e","s","s","D","e","n","i","e","d","E","x","c","e","p","t","i","o",
              "n",":"," ","I","n","s","u","f","f","i","c","i","e","n","t"," ","L","a","k","e",
              " ","F","o","r","m","a","t","i","o","n"," ","p","e","r","m","i","s","s","i","o",
              "n","(","s",")",".">>
      [] reason = "InvalidInputException" ->
            <<"I","n","v","a","l","i","d","I","n","p","u","t","E","x","c","e","p","t","i","o",
              "n",":"," ","T","h","e"," ","i","n","p","u","t"," ","p","r","o","v","i","d","e",
              "d"," ","w","a","s"," ","n","o","t"," ","v","a","l","i","d",".">>
      [] reason = "ValidationException" ->
            <<"V","a","l","i","d","a","t","i","o","n","E","x","c","e","p","t","i","o","n",":",
              " ","T","h","e"," ","p","a","r","a","m","e","t","e","r"," ","v","a","l","u","e",
              " ","d","o","e","s"," ","n","o","t"," ","m","a","t","c","h"," ","t","h","e"," ",
              "a","l","l","o","w","e","d"," ","p","a","t","t","e","r","n",".">>
      [] reason = "ParameterAlreadyExists" ->
            <<"P","a","r","a","m","e","t","e","r","A","l","r","e","a","d","y","E","x","i","s",
              "t","s",":"," ","T","h","e"," ","p","a","r","a","m","e","t","e","r"," ","a","l",
              "r","e","a","d","y"," ","e","x","i","s","t","s","."," ","T","o"," ","o","v","e",
              "r","w","r","i","t","e"," ","t","h","i","s"," ","v","a","l","u","e",","," ","s",
              "e","t"," ","t","h","e"," ","o","v","e","r","w","r","i","t","e"," ","o","p","t",
              "i","o","n"," ","i","n"," ","t","h","e"," ","r","e","q","u","e","s","t"," ","t",
              "o"," ","t","r","u","e",".">>
      [] OTHER -> reason

\* "See the details in CloudWatch Log Stream: https://console.aws.amazon.com/cloudwatch/home?region="
LitSeeTheDetails ==
    <<"S","e","e"," ","t","h","e"," ","d","e","t","a","i","l","s"," ","i","n"," ","C","l","o",
      "u","d","W","a","t","c","h"," ","L","o","g"," ","S","t","r","e","a","m",":"," ","h","t",
      "t","p","s",":","/","/","c","o","n","s","o","l","e",".","a","w","s",".","a","m","a","z",
      "o","n",".","c","o","m","/","c","l","o","u","d","w","a","t","c","h","/","h","o","m","e",
      "?","r","e","g","i","o","n","=">>

\* process.env.AWS_REGION: "us-east-1"
AWS_REGION ==
    <<"u","s","-","e","a","s","t","-","1">>

\* "#logEventViewer:group="
LitLogEventViewer ==
    <<"#","l","o","g","E","v","e","n","t","V","i","e","w","e","r",":","g","r","o","u","p","=">>

\* context.logGroupName: "/aws/lambda/custom-resource"
LogGroupName ==
    <<"/","a","w","s","/","l","a","m","b","d","a","/","c","u","s","t","o","m","-","r","e","s",
      "o","u","r","c","e">>

\* ";stream="
LitStream ==
    <<";","s","t","r","e","a","m","=">>

\* cwLogStreamMessage of composeReason
cwLogStreamMessage(r) ==
    LitSeeTheDetails \o AWS_REGION \o LitLogEventViewer \o LogGroupName \o LitStream
        \o r.logStreamName

\* composeReason(context, reason), on the text of the reason
composeReason(r) ==
    IF r.reason = Undefined THEN cwLogStreamMessage(r)
    ELSE r.reason \o <<" ">> \o cwLogStreamMessage(r)

\* the handler has its result FAILED and its reason, kept as the text
\* `${reason}` gives
Fail(r, reason) ==
    [r EXCEPT !.pc = "respond", !.result = "FAILED", !.reason = ReasonText(reason)]

(***************************************************************************)
(* RAM as the handlers see it.                                             *)
(***************************************************************************)
\* GetResourceShareInvitations for the share arn
GetResourceShareInvitations(arn) == IF arn = ShareArnOK THEN invitations ELSE <<>>

RECURSIVE SelectType(_, _)
SelectType(rs, type) ==
    IF rs = <<>> THEN <<>>
    ELSE IF type = "any" \/ Head(rs).type = type
         THEN <<Head(rs)>> \o SelectType(Tail(rs), type)
         ELSE SelectType(Tail(rs), type)

\* ListResources of the share arn owned by other accounts, of one resource type
ListResources(arn, type) ==
    IF arn = ShareArnOK THEN SelectType(resources, type) ELSE <<>>

(***************************************************************************)
(* ShareAcceptor (src/unnamed/part_004).                                   *)
(***************************************************************************)
Acceptor_validateResourceShareArn(arn) == RESOURCE_SHARE_ARN_REGEX(arn)

Acceptor_validateRegion(region) == RegionRegex(region)

\* faulty variant: an Accepted invitation is accepted again
handleInvitation_AcceptsAccepted(r, invitationStatus, invitationArn) ==
    CASE invitationStatus \in {"PENDING", "ACCEPTED"} ->
            [r EXCEPT !.pc = "acceptInvitation", !.invitationArn = invitationArn]
      [] invitationStatus = "EXPIRED" -> Fail(r, "Invitation has expired.")
      [] invitationStatus = "REJECTED" -> Fail(r, "Invitation has already been rejected.")
      [] OTHER -> Succeed(r)

\* faulty variant: the branch for Expired is missing
handleInvitation_IgnoresExpired(r, invitationStatus, invitationArn) ==
    CASE invitationStatus = "PENDING" ->
            [r EXCEPT !.pc = "acceptInvitation", !.invitationArn = invitationArn]
      [] invitationStatus = "ACCEPTED" -> Succeed(r)
      [] invitationStatus = "REJECTED" -> Fail(r, "Invitation has already been rejected.")
      [] OTHER -> Succeed(r)

\* handleInvitation: what the invocation does next for this status
Acceptor_handleInvitation(r, invitationStatus, invitationArn) ==
    CASE invitationStatus = "PENDING" ->
            [r EXCEPT !.pc = "acceptInvitation", !.invitationArn = invitationArn]
      [] invitationStatus = "EXPIRED" -> Fail(r, "Invitation has expired.")
      [] invitationStatus = "ACCEPTED" -> Succeed(r)
      [] invitationStatus = "REJECTED" -> Fail(r, "Invitation has already been rejected.")
      [] OTHER -> Succeed(r)

\* startCreate up to its first await
Acceptor_startCreate(r) ==
    LET resourceShareArn == r.event.ResourceShareArn
        region == RegionCapture(resourceShareArn)
    IN  IF ~Acceptor_validateResourceShareArn(resourceShareArn)
        THEN Fail(r, "Invalid ResourceShareArn.")
        ELSE IF region = Undefined
        THEN Fail(r, "Could not parse region from resource share arn.")
        ELSE IF ~Acceptor_validateRegion(region)
        THEN Fail(r, InvalidRegion(region))
        ELSE [r EXCEPT !.pc = "getInvitation"]

\* faulty variant: an Update is carried out as a Create
Acceptor_handler_UpdateAsCreate(r) ==
    CASE r.event.RequestType \in {"Create", "Update"} -> Acceptor_startCreate(r)
      [] r.event.RequestType = "Delete" -> Succeed(r)
      [] OTHER -> Fail(r, "Received unknown RequestType.")

\* handler up to its first await
Acceptor_handler(r) ==
    CASE r.event.RequestType = "Update" ->
            Fail(r, "RequestType is Update which is not supported.")
      [] r.event.RequestType = "Create" -> Acceptor_startCreate(r)
      [] r.event.RequestType = "Delete" -> Succeed(r)
      [] OTHER -> Fail(r, "Received unknown RequestType.")

\* faulty variant: the lookup's answer is searched for a PENDING invitation
getInvitation_FirstPending(i) ==
    /\ inv[i].comp = ShareAcceptor
    /\ inv[i].pc = "getInvitation"
    /\ \E out \in Answers :
         LET arn == inv[i].event.ResourceShareArn
             r == Call(inv[i], "GetResourceShareInvitations", arn, out)
             all == GetResourceShareInvitations(arn)
             pending == SelectSeq(all, LAMBDA x : x.status = "PENDING")
             found == IF pending # <<>> THEN pending ELSE all
         IN  inv' = [inv EXCEPT ![i] =
                 IF out # "ok" THEN Fail(r, out)
                 ELSE IF Len(found) > 0 /\ found[1].arn # Undefined
                 THEN Acceptor_handleInvitation(r, found[1].status, found[1].arn)
                 ELSE [r EXCEPT !.pc = "resourceShareAlreadyAccepted"]]
    /\ UNCHANGED provider

\* getInvitation: the lookup, and the branch on its answer
Acceptor_getInvitation(i) ==
    /\ inv[i].comp = ShareAcceptor
    /\ inv[i].pc = "getInvitation"
    /\ \E out \in Answers :
         LET arn == inv[i].event.ResourceShareArn
             r == Call(inv[i], "GetResourceShareInvitations", arn, out)
             found == GetResourceShareInvitations(arn)
         IN  inv' = [inv EXCEPT ![i] =
                 IF out # "ok" THEN Fail(r, out)
                 ELSE IF Len(found) > 0 /\ found[1].arn # Undefined
                 THEN Acceptor_handleInvitation(r, found[1].status, found[1].arn)
                 ELSE [r EXCEPT !.pc = "resourceShareAlreadyAccepted"]]
    /\ UNCHANGED provider

\* faulty variant: the listing is tested for being there, not for its length
resourceShareAlreadyAccepted_AnyListing(listed) == TRUE

\* what resourceShareAlreadyAccepted returns for the listing it got
resourceShareAlreadyAccepted(listed) == Len(listed) # 0

\* resourceShareAlreadyAccepted, and the rest of getInvitation and startCreate
Acceptor_resourceShareAlreadyAccepted(i) ==
    /\ inv[i].comp = ShareAcceptor
    /\ inv[i].pc = "resourceShareAlreadyAccepted"
    /\ \E out \in Answers :
         LET arn == inv[i].event.ResourceShareArn
             r == Call(inv[i], "ListResources", arn, out)
         IN  inv' = [inv EXCEPT ![i] =
                 IF out # "ok" THEN Fail(r, out)
                 ELSE IF ~resourceShareAlreadyAccepted(ListResources(arn, "any"))
                 THEN Fail(r, "Invalid ResourceShareArn: ResourceShareInvitationArn not found.")
                 ELSE Acceptor_handleInvitation(r, "ACCEPTED", Undefined)]
    /\ UNCHANGED provider

\* AcceptResourceShareInvitation at the provider: the answer for the invitation
\* arn as the invitations stand
AcceptAnswer(arn) ==
    IF \E n \in 1..Len(invitations) : invitations[n].arn = arn
    THEN LET n == CHOOSE n \in 1..Len(invitations) : invitations[n].arn = arn
         IN  CASE invitations[n].status = "PENDING" -> "ok"
               [] invitations[n].status = "ACCEPTED" ->
                    "ResourceShareInvitationAlreadyAcceptedException"
               [] invitations[n].status = "REJECTED" ->
                    "ResourceShareInvitationAlreadyRejectedException"
               [] OTHER -> "ResourceShareInvitationExpiredException"
    ELSE "ResourceShareInvitationArnNotFoundException"

\* faulty variant: ResourceShareInvitationAlreadyAcceptedException is rethrown
acceptInvitation_RethrowsAlreadyAccepted(i) ==
    /\ inv[i].comp = ShareAcceptor
    /\ inv[i].pc = "acceptInvitation"
    /\ \E answer \in Answers :
         LET arn == inv[i].invitationArn
             out == IF answer = "ok" THEN AcceptAnswer(arn) ELSE answer
             r == Call(inv[i], "AcceptResourceShareInvitation", arn, out)
         IN  /\ inv' = [inv EXCEPT ![i] = IF out = "ok" THEN Succeed(r) ELSE Fail(r, out)]
             /\ invitations' =
                   IF out = "ok"
                   THEN [n \in 1..Len(invitations) |->
                           IF invitations[n].arn = arn
                           THEN [invitations[n] EXCEPT !.status = "ACCEPTED"]
                           ELSE invitations[n]]
                   ELSE invitations
    /\ UNCHANGED <<resources, glueDatabases, dataLakeSettings, permissions, parameters>>

\* acceptInvitation
Acceptor_acceptInvitation(i) ==
    /\ inv[i].comp = ShareAcceptor
    /\ inv[i].pc = "acceptInvitation"
    /\ \E answer \in Answers :
         LET arn == inv[i].invitationArn
             out == IF answer = "ok" THEN AcceptAnswer(arn) ELSE answer
             r == Call(inv[i], "AcceptResourceShareInvitation", arn, out)
         IN  /\ inv' = [inv EXCEPT ![i] =
                   IF out \in {"ok", "ResourceShareInvitationAlreadyAcceptedException"}
                   THEN Succeed(r)
                   ELSE Fail(r, out)]
             /\ invitations' =
                   IF out = "ok"
                   THEN [n \in 1..Len(invitations) |->
                           IF invitations[n].arn = arn
                           THEN [invitations[n] EXCEPT !.status = "ACCEPTED"]
                           ELSE invitations[n]]
                   ELSE invitations
    /\ UNCHANGED <<resources, glueDatabases, dataLakeSettings, permissions, parameters>>

(***************************************************************************)
(* CatalogDatabaseProvisioner (src/unnamed/part_002).                      *)
(***************************************************************************)
\* faulty variant: the check only looks for ":ram:" somewhere in the string
ShareArnCheckedLoosely(arn) ==
    \E k \in 1..Len(ToStr(arn)) : IsAt(ToStr(arn), k, LitRam)

Provisioner_validateResourceShareArn(arn) == RESOURCE_SHARE_ARN_REGEX(arn)

\* startCreate up to its first await
Provisioner_startCreate(r) ==
    IF ~Provisioner_validateResourceShareArn(r.event.ResourceShareArn)
    THEN Fail(r, "Invalid ResourceShareArn.")
    ELSE [r EXCEPT !.pc = "getSharedGlueDatabaseArn"]

\* handler up to its first await
Provisioner_handler(r) ==
    CASE r.event.RequestType = "Update" ->
            Fail(r, "RequestType is Update which is not supported.")
      [] r.event.RequestType = "Create" -> Provisioner_startCreate(r)
      [] r.event.RequestType = "Delete" ->
            Succeed([r EXCEPT !.physicalResourceId = r.event.PhysicalResourceId])
      [] OTHER -> Fail(r, "Unrecognized cloudformation request type received.")

\* faulty variant: the region segment is taken for the account
getDatabaseArnParts_WrongSegment(glueDatabaseArn) ==
    LET arnParts == Split(ToStr(glueDatabaseArn), ":")
        resource == At(arnParts, 5)
    IN  IF ~GlueDatabaseRegex(glueDatabaseArn) \/ resource = Undefined
        THEN [ok |-> FALSE, securityLakeAdminAccount |-> Undefined,
              databaseName |-> Undefined]
        ELSE [ok |-> TRUE, securityLakeAdminAccount |-> At(arnParts, 3),
              databaseName |-> At(Split(resource, "/"), 1)]

\* getDatabaseArnParts: [ok, securityLakeAdminAccount, databaseName]; ok is
\* false when it throws (the pattern fails, or arnParts[5] is undefined and
\* .split is called on it)
getDatabaseArnParts(glueDatabaseArn) ==
    LET arnParts == Split(ToStr(glueDatabaseArn), ":")
        resource == At(arnParts, 5)
    IN  IF ~GlueDatabaseRegex(glueDatabaseArn) \/ resource = Undefined
        THEN [ok |-> FALSE, securityLakeAdminAccount |-> Undefined,
              databaseName |-> Undefined]
        ELSE [ok |-> TRUE, securityLakeAdminAccount |-> At(arnParts, 4),
              databaseName |-> At(Split(resource, "/"), 1)]

\* faulty variant: the last resource listed is taken
getSharedGlueDatabaseArn_Last(listed) == listed[Len(listed)].arn

\* what getSharedGlueDatabaseArn returns for a listing that is not empty
getSharedGlueDatabaseArn(listed) == listed[1].arn

\* getSharedGlueDatabaseArn and getDatabaseArnParts
Provisioner_getSharedGlueDatabaseArn(i) ==
    /\ inv[i].comp = CatalogDatabaseProvisioner
    /\ inv[i].pc = "getSharedGlueDatabaseArn"
    /\ \E out \in Answers :
         LET arn == inv[i].event.ResourceShareArn
             r == Call(inv[i], "ListResources", arn, out)
             listed == ListResources(arn, "glue:database")
             parts == getDatabaseArnParts(getSharedGlueDatabaseArn(listed))
         IN  inv' = [inv EXCEPT ![i] =
                 IF out # "ok" THEN Fail(r, out)
                 ELSE IF Len(listed) = 0
                 THEN Fail(r, "Found no resources associated with resource share ARN.")
                 ELSE IF ~parts.ok
                 THEN Fail(r, IF GlueDatabaseRegex(getSharedGlueDatabaseArn(listed))
                              THEN "TypeError"
                              ELSE UnexpectedArnFormat(getSharedGlueDatabaseArn(listed)))
                 ELSE [r EXCEPT !.pc = "createGlueDatabase",
                                !.account = parts.securityLakeAdminAccount,
                                !.databaseName = parts.databaseName]]
    /\ UNCHANGED provider

\* the DatabaseInput of createGlueDatabase
DatabaseInput(securityLakeAdminAccount, databaseName) ==
    [Name |-> databaseName,
     TargetDatabase |-> [CatalogId |-> securityLakeAdminAccount,
                         DatabaseName |-> databaseName]]

\* CreateDatabase at the provider: the answer for this input as the catalog
\* stands (a database needs a name; names are unique in a catalog)
CreateDatabaseAnswer(input) ==
    IF input.Name = Undefined \/ input.TargetDatabase.CatalogId = Undefined
    THEN "ValidationException"
    ELSE IF \E d \in glueDatabases : d.Name = input.Name
    THEN "AlreadyExistsException"
    ELSE "ok"

\* faulty variant: AlreadyExistsException is rethrown
createGlueDatabase_RethrowsAlreadyExists(out) == out = "ok"

\* createGlueDatabase returns, rather than throws, on this answer
createGlueDatabaseReturns(out) == out \in {"ok", "AlreadyExistsException"}

\* createGlueDatabase, and the rest of startCreate
Provisioner_createGlueDatabase(i) ==
    /\ inv[i].comp = CatalogDatabaseProvisioner
    /\ inv[i].pc = "createGlueDatabase"
    /\ \E answer \in Answers :
         LET input == DatabaseInput(inv[i].account, inv[i].databaseName)
             out == IF answer = "ok" THEN CreateDatabaseAnswer(input) ELSE answer
             r == Call(inv[i], "CreateDatabase", input, out)
         IN  /\ inv' = [inv EXCEPT ![i] =
                   IF createGlueDatabaseReturns(out)
                   THEN Succeed([r EXCEPT !.physicalResourceId = inv[i].databaseName])
                   ELSE Fail(r, out)]
             /\ glueDatabases' =
                   IF out = "ok" THEN glueDatabases \cup {input} ELSE glueDatabases
    /\ UNCHANGED <<invitations, resources, dataLakeSettings, permissions, parameters>>

(***************************************************************************)
(* TablePermissionGranter (src/glue-table-custom-resource/index.mjs).      *)
(***************************************************************************)
Granter_validateResourceShareArn(arn) == RESOURCE_SHARE_ARN_REGEX(arn)

\* getAccountId: the account id, or Undefined when it throws
getAccountId(stackId) == ACCOUNT_ID_FROM_STACK_REGEX(stackId)

\* validateIAMPrincipal does not throw
validateIAMPrincipal(principal, accountId) == IamPrincipalRegex(principal, accountId)

\* validatePrincipals does not throw
validatePrincipals(principals, accountId) ==
    /\ principals.isArray
    /\ \A n \in 1..Len(principals.items) :
          validateIAMPrincipal(principals.items[n], accountId)

\* faulty variant: the principals are used as given
uniquePrincipals_AsGiven(principals) == principals.items

\* the deduplication of getLakeFormationDataLakePrincipals
uniquePrincipals(principals) == Unique(principals.items)

\* faulty variant: the administrators are replaced by the principals given
buildDataLakeAdmins_TargetsOnly(existingDataLakeAdmins, iamPrincipals) ==
    Unique(iamPrincipals)

\* buildDataLakeAdmins, on the DataLakePrincipalIdentifier of each admin
buildDataLakeAdmins(existingDataLakeAdmins, iamPrincipals) ==
    Unique(existingDataLakeAdmins \o iamPrincipals)

\* buildDataLakeSettings
buildDataLakeSettings(existingDataLakeSettings, iamPrincipals) ==
    [existingDataLakeSettings EXCEPT
        !.DataLakeAdmins = buildDataLakeAdmins(@, iamPrincipals)]

\* getCurrentCallerIdentityArn
getCurrentCallerIdentityArn(event) == event.LambdaRoleArn

\* startCreate up to its first await
Granter_startCreate(r) ==
    LET accountId == getAccountId(r.event.StackId)
    IN  IF ~Granter_validateResourceShareArn(r.event.ResourceShareArn)
        THEN Fail(r, "Invalid ResourceShareArn.")
        ELSE IF accountId = Undefined
        THEN Fail(r, "Could not parse account id from stack ID.")
        ELSE IF ~r.event.LakeFormationPrincipals.isArray
        THEN Fail(r, "LakeFormationPrincipals is not an array.")
        ELSE IF ~validatePrincipals(r.event.LakeFormationPrincipals, accountId)
        THEN Fail(r, InvalidIAMPrincipal(accountId))
        ELSE [r EXCEPT !.pc = "getDatabaseName",
                       !.principals = uniquePrincipals(r.event.LakeFormationPrincipals)]

\* faulty variant: a Delete looks at the share ARN first
Granter_handler_DeleteValidates(r) ==
    CASE r.event.RequestType = "Update" ->
            Fail(r, "RequestType is Update which is not supported.")
      [] r.event.RequestType = "Create" -> Granter_startCreate(r)
      [] r.event.RequestType = "Delete" ->
            IF Granter_validateResourceShareArn(r.event.ResourceShareArn)
            THEN Succeed(r)
            ELSE Fail(r, "Invalid ResourceShareArn.")
      [] OTHER -> Fail(r, "Unrecognized cloudformation request type received.")

\* handler up to its first await
Granter_handler(r) ==
    CASE r.event.RequestType = "Update" ->
            Fail(r, "RequestType is Update which is not supported.")
      [] r.event.RequestType = "Create" -> Granter_startCreate(r)
      [] r.event.RequestType = "Delete" -> Succeed(r)
      [] OTHER -> Fail(r, "Unrecognized cloudformation request type received.")

\* getDatabaseName and getDatabaseNameArn
Granter_getDatabaseName(i) ==
    /\ inv[i].comp = TablePermissionGranter
    /\ inv[i].pc = "getDatabaseName"
    /\ \E out \in Answers :
         LET arn == inv[i].event.ResourceShareArn
             r == Call(inv[i], "ListResources", arn, out)
             listed == ListResources(arn, "glue:database")
             captured == DATABASE_NAME_CAPTURE_REGEX(listed[1].arn)
         IN  inv' = [inv EXCEPT ![i] =
                 IF out # "ok" THEN Fail(r, out)
                 ELSE IF Len(listed) = 0
                 THEN Fail(r, "Found no database associated with resource share ARN.")
                 ELSE IF captured = Undefined
                 THEN Fail(r, "Could not parse database from database arn.")
                 ELSE [r EXCEPT !.pc = "getLakeFormationDataLakeSettings",
                                !.databaseName = captured]]
    /\ UNCHANGED provider

\* faulty variant: a settings read that fails counts as a read of no administrators
getLakeFormationDataLakeSettings_EmptyOnError(i) ==
    /\ inv[i].comp = TablePermissionGranter
    /\ inv[i].pc = "getLakeFormationDataLakeSettings"
    /\ \E out \in Answers :
         LET r == Call(inv[i], "GetDataLakeSettings", <<>>, out)
             existingDataLakeSettings ==
                 IF out = "ok" THEN dataLakeSettings
                 ELSE [dataLakeSettings EXCEPT !.DataLakeAdmins = <<>>]
             newDataLakeSettings ==
                 buildDataLakeSettings(existingDataLakeSettings, inv[i].principals)
             temporaryDataLakeSettings ==
                 buildDataLakeSettings(newDataLakeSettings,
                                       <<getCurrentCallerIdentityArn(inv[i].event)>>)
         IN  inv' = [inv EXCEPT ![i] =
                 [r EXCEPT !.pc = "setTemporaryDataLakeSettings",
                           !.existingDataLakeSettings = existingDataLakeSettings,
                           !.newDataLakeSettings = newDataLakeSettings,
                           !.temporaryDataLakeSettings = temporaryDataLakeSettings]]
    /\ UNCHANGED provider

\* getLakeFormationDataLakeSettings, and the two buildDataLakeSettings of startCreate
Granter_getLakeFormationDataLakeSettings(i) ==
    /\ inv[i].comp = TablePermissionGranter
    /\ inv[i].pc = "getLakeFormationDataLakeSettings"
    /\ \E out \in Answers :
         LET r == Call(inv[i], "GetDataLakeSettings", <<>>, out)
             existingDataLakeSettings == dataLakeSettings
             newDataLakeSettings ==
                 buildDataLakeSettings(existingDataLakeSettings, inv[i].principals)
             temporaryDataLakeSettings ==
                 buildDataLakeSettings(newDataLakeSettings,
                                       <<getCurrentCallerIdentityArn(inv[i].event)>>)
         IN  inv' = [inv EXCEPT ![i] =
                 IF out # "ok" THEN Fail(r, out)
                 ELSE [r EXCEPT !.pc = "setTemporaryDataLakeSettings",
                                !.existingDataLakeSettings = existingDataLakeSettings,
                                !.newDataLakeSettings = newDataLakeSettings,
                                !.temporaryDataLakeSettings = temporaryDataLakeSettings]]
    /\ UNCHANGED provider

\* PutDataLakeSettings at the provider: the answer for these settings (every
\* administrator needs an identifier)
PutDataLakeSettingsAnswer(settings) ==
    IF Undefined \in Range(settings.DataLakeAdmins)
    THEN "InvalidInputException"
    ELSE "ok"

\* faulty variant: the first settings write carries the settings to keep,
\* without the executing role
setTemporaryDataLakeSettings_NotElevated(i) ==
    /\ inv[i].comp = TablePermissionGranter
    /\ inv[i].pc = "setTemporaryDataLakeSettings"
    /\ \E answer \in Answers :
         LET settings == inv[i].newDataLakeSettings
             out == IF answer = "ok" THEN PutDataLakeSettingsAnswer(settings) ELSE answer
             r == Call(inv[i], "PutDataLakeSettings", settings, out)
         IN  /\ inv' = [inv EXCEPT ![i] =
                   IF out # "ok" THEN Fail(r, out)
                   ELSE IF inv[i].principals = <<>>
                   THEN [r EXCEPT !.pc = "setNewDataLakeSettings"]
                   ELSE [r EXCEPT !.pc = "grantLakeFormationPermission", !.k = 1]]
             /\ dataLakeSettings' = IF out = "ok" THEN settings ELSE dataLakeSettings
    /\ UNCHANGED <<invitations, resources, glueDatabases, permissions, parameters>>

\* setLakeFormationDataLakeSettings(lakeFormationClient, temporaryDataLakeSettings)
Granter_setTemporaryDataLakeSettings(i) ==
    /\ inv[i].comp = TablePermissionGranter
    /\ inv[i].pc = "setTemporaryDataLakeSettings"
    /\ \E answer \in Answers :
         LET settings == inv[i].temporaryDataLakeSettings
             out == IF answer = "ok" THEN PutDataLakeSettingsAnswer(settings) ELSE answer
             r == Call(inv[i], "PutDataLakeSettings", settings, out)
         IN  /\ inv' = [inv EXCEPT ![i] =
                   IF out # "ok" THEN Fail(r, out)
                   ELSE IF inv[i].principals = <<>>
                   THEN [r EXCEPT !.pc = "setNewDataLakeSettings"]
                   ELSE [r EXCEPT !.pc = "grantLakeFormationPermission", !.k = 1]]
             /\ dataLakeSettings' = IF out = "ok" THEN settings ELSE dataLakeSettings
    /\ UNCHANGED <<invitations, resources, glueDatabases, permissions, parameters>>

\* GrantPermissions at the provider: only a data lake administrator may grant
\* on the shared tables
GrantPermissionsAnswer(caller) ==
    IF caller \in Range(dataLakeSettings.DataLakeAdmins)
    THEN "ok"
    ELSE "AccessDeniedException"

\* faulty variant: a grant that fails is passed over and the loop goes on
grantLakeFormationPermission_SkipsFailed(i) ==
    /\ inv[i].comp = TablePermissionGranter
    /\ inv[i].pc = "grantLakeFormationPermission"
    /\ \E answer \in Answers :
         LET principal == inv[i].principals[inv[i].k]
             input == [Principal |-> principal, DatabaseName |-> inv[i].databaseName]
             out == IF answer = "ok"
                    THEN GrantPermissionsAnswer(getCurrentCallerIdentityArn(inv[i].event))
                    ELSE answer
             r == Call(inv[i], "GrantPermissions", input, out)
         IN  /\ inv' = [inv EXCEPT ![i] =
                   IF inv[i].k = Len(inv[i].principals)
                   THEN [r EXCEPT !.pc = "setNewDataLakeSettings"]
                   ELSE [r EXCEPT !.k = @ + 1]]
             /\ permissions' = IF out = "ok" THEN permissions \cup {input} ELSE permissions
    /\ UNCHANGED <<invitations, resources, glueDatabases, dataLakeSettings, parameters>>

\* faulty variant: a failed grant is attempted once more
grantLakeFormationPermission_RetriesOnce(i) ==
    /\ inv[i].comp = TablePermissionGranter
    /\ inv[i].pc = "grantLakeFormationPermission"
    /\ \E answer \in Answers :
         LET principal == inv[i].principals[inv[i].k]
             input == [Principal |-> principal, DatabaseName |-> inv[i].databaseName]
             out == IF answer = "ok"
                    THEN GrantPermissionsAnswer(getCurrentCallerIdentityArn(inv[i].event))
                    ELSE answer
             r == Call(inv[i], "GrantPermissions", input, out)
             failedBefore == /\ inv[i].calls # <<>>
                             /\ inv[i].calls[Len(inv[i].calls)].out # "ok"
         IN  /\ inv' = [inv EXCEPT ![i] =
                   IF out # "ok" THEN (IF failedBefore THEN Fail(r, out) ELSE r)
                   ELSE IF inv[i].k = Len(inv[i].principals)
                   THEN [r EXCEPT !.pc = "setNewDataLakeSettings"]
                   ELSE [r EXCEPT !.k = @ + 1]]
             /\ permissions' = IF out = "ok" THEN permissions \cup {input} ELSE permissions
    /\ UNCHANGED <<invitations, resources, glueDatabases, dataLakeSettings, parameters>>

\* one turn of the loop of grantLakeFormationPermission
Granter_grantLakeFormationPermission(i) ==
    /\ inv[i].comp = TablePermissionGranter
    /\ inv[i].pc = "grantLakeFormationPermission"
    /\ \E answer \in Answers :
         LET principal == inv[i].principals[inv[i].k]
             input == [Principal |-> principal, DatabaseName |-> inv[i].databaseName]
             out == IF answer = "ok"
                    THEN GrantPermissionsAnswer(getCurrentCallerIdentityArn(inv[i].event))
                    ELSE answer
             r == Call(inv[i], "GrantPermissions", input, out)
         IN  /\ inv' = [inv EXCEPT ![i] =
                   IF out # "ok" THEN Fail(r, out)
                   ELSE IF inv[i].k = Len(inv[i].principals)
                   THEN [r EXCEPT !.pc = "setNewDataLakeSettings"]
                   ELSE [r EXCEPT !.k = @ + 1]]
             /\ permissions' = IF out = "ok" THEN permissions \cup {input} ELSE permissions
    /\ UNCHANGED <<invitations, resources, glueDatabases, dataLakeSettings, parameters>>

\* faulty variant: the temporary settings are written again
restoredDataLakeSettings_Temporary(r) == r.temporaryDataLakeSettings

\* faulty variant: the restoring write puts back the settings as they were read
restoredDataLakeSettings_Existing(r) == r.existingDataLakeSettings

\* faulty variant: the restoring write keeps the administrators added since the read
restoredDataLakeSettings_Merged(r) ==
    buildDataLakeSettings(r.newDataLakeSettings,
        SelectSeq(dataLakeSettings.DataLakeAdmins,
                  LAMBDA a : a # getCurrentCallerIdentityArn(r.event)))

\* the settings of the second setLakeFormationDataLakeSettings of startCreate
restoredDataLakeSettings(r) == r.newDataLakeSettings

\* setLakeFormationDataLakeSettings(lakeFormationClient, newDataLakeSettings),
\* and the rest of startCreate
Granter_setNewDataLakeSettings(i) ==
    /\ inv[i].comp = TablePermissionGranter
    /\ inv[i].pc = "setNewDataLakeSettings"
    /\ \E answer \in Answers :
         LET settings == restoredDataLakeSettings(inv[i])
             out == IF answer = "ok" THEN PutDataLakeSettingsAnswer(settings) ELSE answer
             r == Call(inv[i], "PutDataLakeSettings", settings, out)
         IN  /\ inv' = [inv EXCEPT ![i] =
                   IF out # "ok" THEN Fail(r, out) ELSE Succeed(r)]
             /\ dataLakeSettings' = IF out = "ok" THEN settings ELSE dataLakeSettings
    /\ UNCHANGED <<invitations, resources, glueDatabases, permissions, parameters>>

(***************************************************************************)
(* ParameterPublisher (src/ssm-parameter-custom-resource/index.mjs, with   *)
(* its constant.mjs, src/unnamed/part_004 lines 227-260).                  *)
(***************************************************************************)
STACK_ID_PARAMETER == "/Detective/SLI/StackId"
RESOURCE_SHARE_ARN_PARAMETER == "/Detective/SLI/ResourceShareArn"
ATHENA_RESULT_BUCKET_PARAMETER == "/Detective/SLI/S3Bucket"
DATABASE_NAME_PARAMETER == "/Detective/SLI/DatabaseName"
TABLE_NAMES_PARAMETER == "/Detective/SLI/TableNames"

\* faulty variant: the database name and the table names go to each other's parameter
ParameterOrder_NamesSwapped ==
    <<STACK_ID_PARAMETER, RESOURCE_SHARE_ARN_PARAMETER, ATHENA_RESULT_BUCKET_PARAMETER,
      TABLE_NAMES_PARAMETER, DATABASE_NAME_PARAMETER>>

\* the order of the saveParameter calls of createParameters, which is also
\* the order of parametersToDelete
ParameterOrder ==
    <<STACK_ID_PARAMETER, RESOURCE_SHARE_ARN_PARAMETER, ATHENA_RESULT_BUCKET_PARAMETER,
      DATABASE_NAME_PARAMETER, TABLE_NAMES_PARAMETER>>

ParameterNames == Range(ParameterOrder)

\* the AllowedPattern of a parameter, on a value
AllowedPattern(name, value) ==
    CASE name = RESOURCE_SHARE_ARN_PARAMETER -> RESOURCE_SHARE_ARN_REGEX(value)
      [] name = ATHENA_RESULT_BUCKET_PARAMETER -> BucketRegex(value)
      [] OTHER -> NonEmptyRegex(value)

\* Array.prototype.join(",")
RECURSIVE Join(_)
Join(xs) ==
    IF xs = <<>> THEN <<>>
    ELSE IF Len(xs) = 1 THEN xs[1]
    ELSE xs[1] \o <<",">> \o Join(Tail(xs))

Publisher_validateResourceShareArn(arn) == RESOURCE_SHARE_ARN_REGEX(arn)

Publisher_validateRegion(region) == RegionRegex(region)

\* getResourceShareRegion does not throw
Publisher_getResourceShareRegion(resourceShareArn) ==
    /\ RegionCapture(resourceShareArn) # Undefined
    /\ Publisher_validateRegion(RegionCapture(resourceShareArn))

\* getAthenaResultBucket does not throw
getAthenaResultBucket(event) == BucketRegex(event.AthenaResultsBucket)

\* getStackId does not throw
getStackId(event) == NonEmptyRegex(event.PropStackId)

\* createParameters up to its first await
Publisher_createParameters(r) ==
    IF ~Publisher_validateResourceShareArn(r.event.ResourceShareArn)
    THEN Fail(r, "Invalid ResourceShareArn.")
    ELSE IF RegionCapture(r.event.ResourceShareArn) = Undefined
    THEN Fail(r, "Could not parse region from resource share arn.")
    ELSE IF ~Publisher_getResourceShareRegion(r.event.ResourceShareArn)
    THEN Fail(r, InvalidRegion(RegionCapture(r.event.ResourceShareArn)))
    ELSE IF ~Publisher_validateRegion(r.event.DTRegion)
    THEN Fail(r, InvalidRegion(r.event.DTRegion))
    ELSE IF ~getAthenaResultBucket(r.event)
    THEN Fail(r, "Invalid bucket name.")
    ELSE IF ~getStackId(r.event)
    THEN Fail(r, "Invalid stackId.")
    ELSE [r EXCEPT !.pc = "getDatabaseName"]

\* faulty variant: a Delete validates the share ARN as a Create does
deleteParameters_ChecksShareArn(r) ==
    IF ~Publisher_validateResourceShareArn(r.event.ResourceShareArn)
    THEN Fail(r, "Invalid ResourceShareArn.")
    ELSE IF ~Publisher_validateRegion(r.event.DTRegion)
    THEN Fail(r, InvalidRegion(r.event.DTRegion))
    ELSE [r EXCEPT !.pc = "deleteSSMParameters"]

\* deleteParameters up to its first await
Publisher_deleteParameters(r) ==
    IF ~Publisher_validateRegion(r.event.DTRegion)
    THEN Fail(r, InvalidRegion(r.event.DTRegion))
    ELSE [r EXCEPT !.pc = "deleteSSMParameters"]

\* faulty variant: whatever is not Create or Update is taken for a Delete
Publisher_handler_UnknownAsDelete(r) ==
    CASE r.event.RequestType = "Update" ->
            Fail(r, "RequestType is Update which is not supported.")
      [] r.event.RequestType = "Create" -> Publisher_createParameters(r)
      [] OTHER -> Publisher_deleteParameters(r)

\* handler up to its first await
Publisher_handler(r) ==
    CASE r.event.RequestType = "Update" ->
            Fail(r, "RequestType is Update which is not supported.")
      [] r.event.RequestType = "Create" -> Publisher_createParameters(r)
      [] r.event.RequestType = "Delete" -> Publisher_deleteParameters(r)
      [] OTHER -> Fail(r, "Received unknown RequestType.")

\* getDatabaseName and getDatabaseNameArn
Publisher_getDatabaseName(i) ==
    /\ inv[i].comp = ParameterPublisher
    /\ inv[i].pc = "getDatabaseName"
    /\ \E out \in Answers :
         LET arn == inv[i].event.ResourceShareArn
             r == Call(inv[i], "ListResources",
                       [resourceShareArn |-> arn, resourceType |-> "glue:database"], out)
             listed == ListResources(arn, "glue:database")
             captured == DATABASE_NAME_CAPTURE_REGEX(listed[1].arn)
         IN  inv' = [inv EXCEPT ![i] =
                 IF out # "ok" THEN Fail(r, out)
                 ELSE IF Len(listed) = 0
                 THEN Fail(r, "Found no database associated with resource share ARN.")
                 ELSE IF captured = Undefined
                 THEN Fail(r, "Could not parse database from database arn.")
                 ELSE [r EXCEPT !.pc = "getTableNames", !.databaseName = captured]]
    /\ UNCHANGED provider

\* faulty variant: a table ARN that yields no name is left out
getTableNames_SkipsUnparsable(i) ==
    /\ inv[i].comp = ParameterPublisher
    /\ inv[i].pc = "getTableNames"
    /\ \E out \in Answers :
         LET arn == inv[i].event.ResourceShareArn
             r == Call(inv[i], "ListResources",
                       [resourceShareArn |-> arn, resourceType |-> "glue:table"], out)
             listed == ListResources(arn, "glue:table")
             tableNames == [n \in 1..Len(listed) |-> TABLE_NAME_CAPTURE_REGEX(listed[n].arn)]
         IN  inv' = [inv EXCEPT ![i] =
                 IF out # "ok" THEN Fail(r, out)
                 ELSE IF Len(listed) = 0
                 THEN Fail(r, "Found no table associated with resource share ARN.")
                 ELSE [r EXCEPT !.pc = "saveParameter", !.k = 1,
                                !.tableNameList =
                                    SelectSeq(tableNames, LAMBDA t : t # Undefined)]]
    /\ UNCHANGED provider

\* getTableNames and getTableArns
Publisher_getTableNames(i) ==
    /\ inv[i].comp = ParameterPublisher
    /\ inv[i].pc = "getTableNames"
    /\ \E out \in Answers :
         LET arn == inv[i].event.ResourceShareArn
             r == Call(inv[i], "ListResources",
                       [resourceShareArn |-> arn, resourceType |-> "glue:table"], out)
             listed == ListResources(arn, "glue:table")
             tableNames == [n \in 1..Len(listed) |-> TABLE_NAME_CAPTURE_REGEX(listed[n].arn)]
         IN  inv' = [inv EXCEPT ![i] =
                 IF out # "ok" THEN Fail(r, out)
                 ELSE IF Len(listed) = 0
                 THEN Fail(r, "Found no table associated with resource share ARN.")
                 ELSE IF Undefined \in Range(tableNames)
                 THEN Fail(r, "Could not parse table name from table arn.")
                 ELSE [r EXCEPT !.pc = "saveParameter", !.k = 1,
                                !.tableNameList = tableNames]]
    /\ UNCHANGED provider

\* the value of the k-th saveParameter call of createParameters
ParameterValue(r, k) ==
    CASE k = 1 -> r.event.PropStackId
      [] k = 2 -> r.event.ResourceShareArn
      [] k = 3 -> r.event.AthenaResultsBucket
      [] k = 4 -> r.databaseName
      [] OTHER -> Join(r.tableNameList)

\* faulty variant: PutParameter with Overwrite
PutParameterAnswer_Overwrite(name, value) ==
    IF value = Undefined \/ ~AllowedPattern(name, value)
    THEN "ValidationException"
    ELSE "ok"

\* PutParameter (no Overwrite) at the provider: the answer as the store stands
PutParameterAnswer(name, value) ==
    IF value = Undefined \/ ~AllowedPattern(name, value)
    THEN "ValidationException"
    ELSE IF parameters[name] # Undefined
    THEN "ParameterAlreadyExists"
    ELSE "ok"

\* faulty variant: a parameter that is stored already is passed over
saveParameter_SkipsExisting(i) ==
    /\ inv[i].comp = ParameterPublisher
    /\ inv[i].pc = "saveParameter"
    /\ \E answer \in Answers :
         LET name == ParameterOrder[inv[i].k]
             value == ParameterValue(inv[i], inv[i].k)
             out == IF answer = "ok" THEN PutParameterAnswer(name, value) ELSE answer
             r == Call(inv[i], "PutParameter", [Name |-> name, Value |-> value], out)
         IN  /\ inv' = [inv EXCEPT ![i] =
                   IF out \notin {"ok", "ParameterAlreadyExists"} THEN Fail(r, out)
                   ELSE IF inv[i].k = Len(ParameterOrder) THEN Succeed(r)
                   ELSE [r EXCEPT !.k = @ + 1]]
             /\ parameters' =
                   IF out = "ok" THEN [parameters EXCEPT ![name] = value] ELSE parameters
    /\ UNCHANGED <<invitations, resources, glueDatabases, dataLakeSettings, permissions>>

\* saveParameter up to the answer of PutParameter: the k-th call of createParameters
Publisher_saveParameter(i) ==
    /\ inv[i].comp = ParameterPublisher
    /\ inv[i].pc = "saveParameter"
    /\ \E answer \in Answers :
         LET name == ParameterOrder[inv[i].k]
             value == ParameterValue(inv[i], inv[i].k)
             out == IF answer = "ok" THEN PutParameterAnswer(name, value) ELSE answer
             r == Call(inv[i], "PutParameter", [Name |-> name, Value |-> value], out)
         IN  /\ inv' = [inv EXCEPT ![i] =
                   IF out = "ParameterAlreadyExists"
                   THEN [r EXCEPT !.pc = "getStackIdParameter"]
                   ELSE IF out # "ok" THEN Fail(r, out)
                   ELSE IF inv[i].k = Len(ParameterOrder) THEN Succeed(r)
                   ELSE [r EXCEPT !.k = @ + 1]]
             /\ parameters' =
                   IF out = "ok" THEN [parameters EXCEPT ![name] = value] ELSE parameters
    /\ UNCHANGED <<invitations, resources, glueDatabases, dataLakeSettings, permissions>>

\* faulty variant: a parameter that exists already counts as written
getStackIdParameter_CollisionIsSuccess(i) ==
    /\ inv[i].comp = ParameterPublisher
    /\ inv[i].pc = "getStackIdParameter"
    /\ inv' = [inv EXCEPT ![i] = Succeed(inv[i])]
    /\ UNCHANGED provider

\* getStackIdParameter, and the rest of the catch block of saveParameter: the
\* stack id found goes to console.error, the ParameterAlreadyExists is rethrown
Publisher_getStackIdParameter(i) ==
    /\ inv[i].comp = ParameterPublisher
    /\ inv[i].pc = "getStackIdParameter"
    /\ \E answer \in Answers :
         LET stored == parameters[STACK_ID_PARAMETER]
             out == IF answer # "ok" THEN answer
                    ELSE IF stored = Undefined THEN "ParameterNotFound"
                    ELSE "ok"
             stackId == IF out = "ok" THEN stored ELSE Undefined
             r == Call(inv[i], "GetParameter", [Name |-> STACK_ID_PARAMETER], out)
         IN  inv' = [inv EXCEPT ![i] =
                 Fail([r EXCEPT !.logged = Append(@, stackId)], "ParameterAlreadyExists")]
    /\ UNCHANGED provider

\* faulty variant: the parameters of another stack are left alone
deleteSSMParameters_OwnStackOnly(i) ==
    /\ inv[i].comp = ParameterPublisher
    /\ inv[i].pc = "deleteSSMParameters"
    /\ \E out \in Answers :
         LET r == Call(inv[i], "DeleteParameters", [Names |-> ParameterOrder], out)
             own == parameters[STACK_ID_PARAMETER] \in {Undefined, inv[i].event.PropStackId}
         IN  /\ inv' = [inv EXCEPT ![i] = IF out # "ok" THEN Fail(r, out) ELSE Succeed(r)]
             /\ parameters' =
                   IF out = "ok" /\ own THEN [n \in ParameterNames |-> Undefined]
                   ELSE parameters
    /\ UNCHANGED <<invitations, resources, glueDatabases, dataLakeSettings, permissions>>

\* faulty variant: an error of DeleteParameters is caught and passed over
deleteSSMParameters_BestEffort(i) ==
    /\ inv[i].comp = ParameterPublisher
    /\ inv[i].pc = "deleteSSMParameters"
    /\ \E out \in Answers :
         LET r == Call(inv[i], "DeleteParameters", [Names |-> ParameterOrder], out)
         IN  /\ inv' = [inv EXCEPT ![i] = Succeed(r)]
             /\ parameters' =
                   IF out = "ok" THEN [n \in ParameterNames |-> Undefined] ELSE parameters
    /\ UNCHANGED <<invitations, resources, glueDatabases, dataLakeSettings, permissions>>

\* deleteSSMParameters, and the rest of deleteParameters
Publisher_deleteSSMParameters(i) ==
    /\ inv[i].comp = ParameterPublisher
    /\ inv[i].pc = "deleteSSMParameters"
    /\ \E out \in Answers :
         LET r == Call(inv[i], "DeleteParameters", [Names |-> ParameterOrder], out)
         IN  /\ inv' = [inv EXCEPT ![i] = IF out # "ok" THEN Fail(r, out) ELSE Succeed(r)]
             /\ parameters' =
                   IF out = "ok" THEN [n \in ParameterNames |-> Undefined] ELSE parameters
    /\ UNCHANGED <<invitations, resources, glueDatabases, dataLakeSettings, permissions>>

(***************************************************************************)
(* The response, the same in the four handlers.                            *)
(***************************************************************************)
\* the PhysicalResourceId of the response body: context.logStreamName, but in
\* CatalogDatabaseProvisioner physicalResourceId ?? context.logStreamName
PhysicalResourceId(r) ==
    IF r.comp = CatalogDatabaseProvisioner /\ r.physicalResourceId # Undefined
    THEN r.physicalResourceId
    ELSE r.logStreamName

\* faulty variant: the request has no "error" listener, so after an error of
\* the delivery context.done() is not called and the promise stays pending
sendResponse_ErrorUnhandled(i) ==
    /\ inv[i].pc = "respond"
    /\ \E delivered \in BOOLEAN :
         inv' = [inv EXCEPT ![i] =
            [@ EXCEPT !.pc = IF delivered THEN "done" ELSE "pending",
                      !.sent = Append(@,
                          [Status |-> inv[i].result,
                           Reason |-> composeReason(inv[i]),
                           PhysicalResourceId |-> PhysicalResourceId(inv[i]),
                           delivered |-> delivered]),
                      !.done = IF delivered THEN @ + 1 ELSE @]]
    /\ UNCHANGED provider

\* sendResponse: the body is written once; the request gets a response or
\* raises an error, and either way context.done() runs and the promise resolves
sendResponse(i) ==
    /\ inv[i].pc = "respond"
    /\ \E delivered \in BOOLEAN :
         inv' = [inv EXCEPT ![i] =
            [@ EXCEPT !.pc = "done",
                      !.sent = Append(@,
                          [Status |-> inv[i].result,
                           Reason |-> composeReason(inv[i]),
                           PhysicalResourceId |-> PhysicalResourceId(inv[i]),
                           delivered |-> delivered]),
                      !.done = @ + 1]]
    /\ UNCHANGED provider

(***************************************************************************)
(* The events, the initial provider states, the specifications.            *)
(***************************************************************************)
ShareArns ==
    {ShareArnOK, ShareArnOther, ShareArnBadRegion, ShareArnWrongService,
     ShareArnNoRest, ShareArnLongPartition, Undefined}

\* the longest LakeFormationPrincipals list
MaxPrincipals == 2

PrincipalValues ==
    {Principal1, Principal2, PrincipalForeign, PrincipalCn, PrincipalForeignPath}

RECURSIVE SeqsUpTo(_, _)
SeqsUpTo(S, n) ==
    IF n = 0 THEN {<<>>}
    ELSE LET shorter == SeqsUpTo(S, n - 1)
         IN  shorter \cup { Append(xs, x) : xs \in { ys \in shorter : Len(ys) = n - 1 }, x \in S }

PrincipalLists ==
    {NotAnArray} \cup { ArrayOf(xs) : xs \in SeqsUpTo(PrincipalValues, MaxPrincipals) }

\* the events a component can receive
Events(comp) ==
    CASE comp = ShareAcceptor ->
            { [NoEvent EXCEPT !.RequestType = t, !.ResourceShareArn = a] :
                t \in RequestTypes, a \in ShareArns }
      [] comp = CatalogDatabaseProvisioner ->
            { [NoEvent EXCEPT !.RequestType = t, !.ResourceShareArn = a,
                              !.PhysicalResourceId =
                                  IF t = "Delete" THEN DbArnShared ELSE Undefined] :
                t \in RequestTypes, a \in ShareArns }
      [] comp = TablePermissionGranter ->
            { [NoEvent EXCEPT !.RequestType = t, !.ResourceShareArn = a,
                              !.StackId = s, !.LakeFormationPrincipals = ps,
                              !.LambdaRoleArn = LambdaRole] :
                t \in RequestTypes, a \in ShareArns,
                s \in {StackIdOK, StackIdShortAccount}, ps \in PrincipalLists }
      [] OTHER ->
            { [NoEvent EXCEPT !.RequestType = t, !.ResourceShareArn = a,
                              !.DTRegion = d, !.AthenaResultsBucket = b,
                              !.PropStackId = s] :
                t \in RequestTypes, a \in ShareArns, d \in {RegionHome, RegionBad},
                b \in {BucketOK, BucketBad}, s \in {StackIdOK, StackIdOther, <<>>} }

Invitation(status, arn) == [status |-> status, arn |-> arn]
Resource(type, arn) == [type |-> type, arn |-> arn]

InvitationLists ==
    { <<>>,
      <<Invitation("PENDING", InvitationArn1)>>,
      <<Invitation("ACCEPTED", InvitationArn1)>>,
      <<Invitation("EXPIRED", InvitationArn1)>>,
      <<Invitation("REJECTED", InvitationArn1)>>,
      <<Invitation("PENDING", Undefined)>>,
      <<Invitation("UNKNOWN", InvitationArn1)>>,
      <<Invitation("EXPIRED", InvitationArn1), Invitation("PENDING", InvitationArn2)>> }

SharedTables == <<Resource("glue:table", TableArn1), Resource("glue:table", TableArn2)>>

SharedResources == <<Resource("glue:database", DbArnShared)>> \o SharedTables

TwoDatabases ==
    <<Resource("glue:database", DbArnSecond), Resource("glue:database", DbArnShared)>>
        \o SharedTables

\* the listings a component can meet
ResourceLists(comp) ==
    CASE comp = ShareAcceptor -> { <<>>, SharedResources }
      [] comp = CatalogDatabaseProvisioner ->
            { <<>>, SharedResources, TwoDatabases, SharedTables,
              <<Resource("glue:database", DbArnNotGlue)>>,
              <<Resource("glue:database", DbArnShort)>>,
              <<Resource("glue:database", DbArnExtra)>> }
      [] comp = TablePermissionGranter ->
            { <<>>, SharedResources, TwoDatabases,
              <<Resource("glue:database", DbArnExtra)>> }
      [] OTHER ->
            { <<>>, SharedResources, TwoDatabases, SharedTables,
              <<Resource("glue:database", DbArnShared)>>,
              <<Resource("glue:database", DbArnShort)>> \o SharedTables,
              <<Resource("glue:database", DbArnShared), Resource("glue:table", TableArn1),
                Resource("glue:table", TableArnBad)>> }

\* the rest of the data lake settings, which the handler carries along
Settings(admins) ==
    [DataLakeAdmins |-> admins, CreateTableDefaultPermissions |-> "IAM_ALLOWED_PRINCIPALS"]

SettingsValues ==
    { Settings(<<>>), Settings(<<Admin0>>), Settings(<<Admin0, Principal1>>),
      Settings(<<Admin0, LambdaRole>>) }

NoParameters == [n \in ParameterNames |-> Undefined]

\* the parameters a stack StackIdOther created earlier
OtherStackParameters ==
    [n \in ParameterNames |->
        CASE n = STACK_ID_PARAMETER -> StackIdOther
          [] n = RESOURCE_SHARE_ARN_PARAMETER -> ShareArnOK
          [] n = ATHENA_RESULT_BUCKET_PARAMETER -> BucketOK
          [] n = DATABASE_NAME_PARAMETER -> DATABASE_NAME_CAPTURE_REGEX(DbArnShared)
          [] OTHER -> TABLE_NAME_CAPTURE_REGEX(TableArn1)]

ParameterStores ==
    { NoParameters, OtherStackParameters,
      [OtherStackParameters EXCEPT ![STACK_ID_PARAMETER] = Undefined] }

\* the Lambda functions are deployed, every one of comps in some behaviour,
\* and the provider is in a state the component's calls can meet
InitOf(comps) ==
    \E comp \in comps :
        /\ invitations \in (IF comp = ShareAcceptor THEN InvitationLists ELSE {<<>>})
        /\ resources \in ResourceLists(comp)
        /\ glueDatabases \in
              (IF comp = CatalogDatabaseProvisioner
               THEN { {}, {DatabaseInput(At(Split(DbArnShared, ":"), 4),
                                         DATABASE_NAME_CAPTURE_REGEX(DbArnShared))} }
               ELSE { {} })
        /\ dataLakeSettings \in
              (IF comp = TablePermissionGranter THEN SettingsValues ELSE {Settings(<<>>)})
        /\ permissions = {}
        /\ parameters \in (IF comp = ParameterPublisher THEN ParameterStores ELSE {NoParameters})
        /\ inv = [i \in Inv |-> Idle(comp, i)]

\* the handler of comp
handler(r) ==
    CASE r.comp = ShareAcceptor -> Acceptor_handler(r)
      [] r.comp = CatalogDatabaseProvisioner -> Provisioner_handler(r)
      [] r.comp = TablePermissionGranter -> Granter_handler(r)
      [] OTHER -> Publisher_handler(r)

\* invocation i receives one of events and runs up to its first await
ReceiveFrom(i, events) ==
    /\ inv[i].pc = "idle"
    /\ \E event \in events :
         inv' = [inv EXCEPT ![i] = handler([@ EXCEPT !.event = event, !.pre = ProviderState])]
    /\ UNCHANGED provider

Receive(i) == ReceiveFrom(i, Events(inv[i].comp))

\* the events of the behaviours with several invocations
FewEvents(comp) ==
    { e \in Events(comp) :
        /\ e.RequestType \in {"Create", "Delete"}
        /\ e.ResourceShareArn \in {ShareArnOK, ShareArnWrongService}
        /\ e.StackId \in {StackIdOK, Undefined}
        /\ e.LakeFormationPrincipals \in {NotAnArray, ArrayOf(<<Principal1>>)}
        /\ e.DTRegion \in {RegionHome, Undefined}
        /\ e.AthenaResultsBucket \in {BucketOK, Undefined}
        /\ e.PropStackId \in {StackIdOK, StackIdOther, Undefined} }

\* invocation i receives its event once the invocations before it are over
ReceiveNext(i) ==
    /\ \A j \in Inv : j < i => inv[j].pc = "done"
    /\ ReceiveFrom(i, FewEvents(inv[i].comp))

\* the steps of a running invocation
Step(i) ==
    \/ Acceptor_getInvitation(i)
    \/ Acceptor_resourceShareAlreadyAccepted(i)
    \/ Acceptor_acceptInvitation(i)
    \/ Provisioner_getSharedGlueDatabaseArn(i)
    \/ Provisioner_createGlueDatabase(i)
    \/ Granter_getDatabaseName(i)
    \/ Granter_getLakeFormationDataLakeSettings(i)
    \/ Granter_setTemporaryDataLakeSettings(i)
    \/ Granter_grantLakeFormationPermission(i)
    \/ Granter_setNewDataLakeSettings(i)
    \/ Publisher_getDatabaseName(i)
    \/ Publisher_getTableNames(i)
    \/ Publisher_saveParameter(i)
    \/ Publisher_getStackIdParameter(i)
    \/ Publisher_deleteSSMParameters(i)
    \/ sendResponse(i)

\* the steps of CatalogDatabaseProvisioner
ProvisionerStep(i) ==
    \/ Provisioner_getSharedGlueDatabaseArn(i)
    \/ Provisioner_createGlueDatabase(i)
    \/ sendResponse(i)

Init == InitOf(Components)

\* one invocation of one component
Next == Receive(1) \/ Step(1)

Spec == Init /\ [][Next]_vars

\* CatalogDatabaseProvisioner invoked again and again, one invocation after the other
InitProvisioner == InitOf({CatalogDatabaseProvisioner})

NextProvisionerRerun == \E i \in Inv : ReceiveNext(i) \/ ProvisionerStep(i)

SpecProvisionerRerun == InitProvisioner /\ [][NextProvisionerRerun]_vars

(***************************************************************************)
(* What the claims speak of.                                               *)
(***************************************************************************)
\* the calls of one operation an invocation issued, in order
CallsOf(r, op) == SelectSeq(r.calls, LAMBDA c : c.op = op)

\* the invocation is over and reported this status
Reported(r, status) ==
    r.pc = "done" /\ Len(r.sent) = 1 /\ r.sent[1].Status = status

\* the invitations the lookup of this invocation was answered with
LookedUp(r) ==
    IF r.event.ResourceShareArn = ShareArnOK THEN r.pre.invitations ELSE <<>>

\* the listing, of one type, the share of this invocation had
Listed(r, type) ==
    IF r.event.ResourceShareArn = ShareArnOK THEN SelectType(r.pre.resources, type) ELSE <<>>

\* the first call of the invocation was answered
FirstCallAnswered(r, op) ==
    Len(r.calls) >= 1 /\ r.calls[1].op = op /\ r.calls[1].out = "ok"

\* C1: in every component, a Create whose ResourceShareArn does not match the
\* share-ARN grammar issues no remote call, leaves the provider as it was and
\* reports FAILED.
C1_MalformedShareArnFailsBeforeAnyCall ==
    \A i \in Inv :
        (/\ inv[i].event.RequestType = "Create"
         /\ ~RESOURCE_SHARE_ARN_REGEX(inv[i].event.ResourceShareArn))
        => /\ inv[i].calls = <<>>
           /\ inv[i].result = "FAILED"
           /\ inv[i].pc \in {"respond", "done"}
           /\ inv[i].pc = "done" => Reported(inv[i], "FAILED")
           /\ ProviderState = inv[i].pre

\* a TablePermissionGranter Create, all inputs valid but the share ARN, is over
C1_Witness ==
    \E i \in Inv :
        /\ inv[i].comp = TablePermissionGranter
        /\ inv[i].event.RequestType = "Create"
        /\ inv[i].event.ResourceShareArn = ShareArnWrongService
        /\ inv[i].event.StackId = StackIdOK
        /\ inv[i].event.LakeFormationPrincipals = ArrayOf(<<Principal1>>)
        /\ Reported(inv[i], "FAILED")

\* C3: ShareAcceptor Create, the lookup answered: a first invitation that is
\* Pending is accepted by exactly one accept call, for its ARN; for a first
\* invitation that is Accepted no accept call is issued and SUCCESS is reported;
\* in both cases the PhysicalResourceId reported is the log stream name.
C3_PendingAcceptedOnceAcceptedSkipped ==
    \A i \in Inv :
        LET r == inv[i]
            found == LookedUp(r)
            accepts == CallsOf(r, "AcceptResourceShareInvitation")
        IN  (/\ r.comp = ShareAcceptor
             /\ r.event.RequestType = "Create"
             /\ r.pc = "done"
             /\ FirstCallAnswered(r, "GetResourceShareInvitations")
             /\ Len(found) > 0
             /\ found[1].arn # Undefined
             /\ found[1].status \in {"PENDING", "ACCEPTED"})
            => /\ found[1].status = "PENDING" =>
                    Len(accepts) = 1 /\ accepts[1].arg = found[1].arn
               /\ found[1].status = "ACCEPTED" =>
                    Len(accepts) = 0 /\ Reported(r, "SUCCESS")
               /\ Len(r.sent) = 1
               /\ r.sent[1].PhysicalResourceId = r.logStreamName

\* a Pending invitation was accepted and SUCCESS reported
C3_Witness ==
    \E i \in Inv :
        /\ inv[i].comp = ShareAcceptor
        /\ LookedUp(inv[i]) = <<Invitation("PENDING", InvitationArn1)>>
        /\ Len(CallsOf(inv[i], "AcceptResourceShareInvitation")) = 1
        /\ invitations = <<Invitation("ACCEPTED", InvitationArn1)>>
        /\ Reported(inv[i], "SUCCESS")

\* C4: ShareAcceptor Create, the lookup answered with a first invitation that
\* is Expired or Rejected: FAILED is reported, no accept call is issued and the
\* invitations are as they were.
C4_ExpiredOrRejectedFails ==
    \A i \in Inv :
        LET r == inv[i]
            found == LookedUp(r)
        IN  (/\ r.comp = ShareAcceptor
             /\ r.event.RequestType = "Create"
             /\ FirstCallAnswered(r, "GetResourceShareInvitations")
             /\ Len(found) > 0
             /\ found[1].arn # Undefined
             /\ found[1].status \in {"EXPIRED", "REJECTED"})
            => /\ r.result = "FAILED"
               /\ r.pc = "done" => Reported(r, "FAILED")
               /\ CallsOf(r, "AcceptResourceShareInvitation") = <<>>
               /\ invitations = r.pre.invitations

\* an Expired invitation with a Pending one behind it: FAILED, nothing accepted
C4_Witness ==
    \E i \in Inv :
        /\ inv[i].comp = ShareAcceptor
        /\ Len(LookedUp(inv[i])) = 2
        /\ LookedUp(inv[i])[1].status = "EXPIRED"
        /\ FirstCallAnswered(inv[i], "GetResourceShareInvitations")
        /\ Reported(inv[i], "FAILED")

\* C5: ShareAcceptor Create, the lookup answered with no invitation: the
\* second call is the resource listing of the share; when it is answered,
\* a listing that is not empty gives SUCCESS with no accept call, an empty
\* one gives FAILED.
C5_NoInvitationFallsBackToListing ==
    \A i \in Inv :
        LET r == inv[i]
        IN  (/\ r.comp = ShareAcceptor
             /\ r.event.RequestType = "Create"
             /\ r.pc = "done"
             /\ FirstCallAnswered(r, "GetResourceShareInvitations")
             /\ LookedUp(r) = <<>>)
            => /\ Len(r.calls) = 2
               /\ r.calls[2].op = "ListResources"
               /\ r.calls[2].arg = r.event.ResourceShareArn
               /\ r.calls[2].out = "ok" =>
                    IF Listed(r, "any") # <<>>
                    THEN Reported(r, "SUCCESS")
                    ELSE Reported(r, "FAILED")

\* no invitation, a listing that is not empty: SUCCESS
C5_Witness ==
    \E i \in Inv :
        /\ inv[i].comp = ShareAcceptor
        /\ inv[i].event.RequestType = "Create"
        /\ LookedUp(inv[i]) = <<>>
        /\ Len(inv[i].calls) = 2
        /\ inv[i].calls[2].out = "ok"
        /\ Listed(inv[i], "any") # <<>>
        /\ Reported(inv[i], "SUCCESS")

\* C2: TablePermissionGranter, a Create that is alone and reports SUCCESS: the
\* administrators the provider holds are those it held when the invocation
\* read them together with the target principals, and the executing role is
\* among them only if it was an administrator or is a target principal.
C2_AdminsAreOriginalPlusTargets ==
    \A i \in Inv :
        LET r == inv[i]
            original == Range(r.pre.dataLakeSettings.DataLakeAdmins)
            targets == Range(r.event.LakeFormationPrincipals.items)
            admins == Range(dataLakeSettings.DataLakeAdmins)
        IN  (/\ r.comp = TablePermissionGranter
             /\ r.event.RequestType = "Create"
             /\ r.pc \in {"respond", "done"}
             /\ r.result = "SUCCESS")
            => /\ admins = original \cup targets
               /\ r.event.LambdaRoleArn \notin original \cup targets
                    => r.event.LambdaRoleArn \notin admins

\* SUCCESS after the role was elevated, for two targets, one an administrator before
C2_Witness ==
    \E i \in Inv :
        /\ inv[i].comp = TablePermissionGranter
        /\ inv[i].event.LakeFormationPrincipals = ArrayOf(<<Principal2, Principal1>>)
        /\ inv[i].pre.dataLakeSettings = Settings(<<Admin0, Principal1>>)
        /\ Len(CallsOf(inv[i], "PutDataLakeSettings")) = 2
        /\ LambdaRole \in Range(CallsOf(inv[i], "PutDataLakeSettings")[1].arg.DataLakeAdmins)
        /\ Reported(inv[i], "SUCCESS")
        /\ Range(dataLakeSettings.DataLakeAdmins) = {Admin0, Principal1, Principal2}

\* the principals of the grant calls an invocation issued, in order
Granted(r) ==
    LET grants == CallsOf(r, "GrantPermissions")
    IN  [n \in 1..Len(grants) |-> grants[n].arg.Principal]

\* the place of the first occurrence of x in xs
FirstPlace(xs, x) == CHOOSE n \in 1..Len(xs) : xs[n] = x /\ \A m \in 1..(n - 1) : xs[m] # x

\* C9: TablePermissionGranter Create: no principal is granted twice in one
\* invocation, the principals granted are principals of the list, in the order
\* of their first occurrences with none skipped, and a Create that reports
\* SUCCESS has granted every principal of the list.
C9_OneGrantPerDistinctPrincipal ==
    \A i \in Inv :
        LET r == inv[i]
            items == r.event.LakeFormationPrincipals.items
            granted == Granted(r)
        IN  (r.comp = TablePermissionGranter /\ r.event.RequestType = "Create")
            => /\ \A a, b \in 1..Len(granted) : a # b => granted[a] # granted[b]
               /\ Range(granted) \subseteq Range(items)
               /\ \A a, b \in 1..Len(granted) :
                     a < b => FirstPlace(items, granted[a]) < FirstPlace(items, granted[b])
               /\ \A n \in 1..Len(items) :
                     items[n] \notin Range(granted) =>
                        \A a \in 1..Len(granted) : FirstPlace(items, granted[a]) < n
               /\ r.result = "SUCCESS" => Range(granted) = Range(items)

\* a list with a duplicate: one grant, SUCCESS
C9_Witness ==
    \E i \in Inv :
        /\ inv[i].comp = TablePermissionGranter
        /\ inv[i].event.LakeFormationPrincipals = ArrayOf(<<Principal1, Principal1>>)
        /\ Granted(inv[i]) = <<Principal1>>
        /\ Reported(inv[i], "SUCCESS")

\* C10, as claimed: TablePermissionGranter Create with LakeFormationPrincipals
\* an empty list or no list reports FAILED and issues no remote call.
C10_EmptyOrNoListFails ==
    \A i \in Inv :
        LET r == inv[i]
        IN  (/\ r.comp = TablePermissionGranter
             /\ r.event.RequestType = "Create"
             /\ \/ ~r.event.LakeFormationPrincipals.isArray
                \/ r.event.LakeFormationPrincipals.items = <<>>)
            => /\ r.calls = <<>>
               /\ r.result = "FAILED"
               /\ dataLakeSettings = r.pre.dataLakeSettings

\* the expected mirror entries of the database ARNs of the listings
ExpectedDatabaseInput(arn) ==
    CASE arn = DbArnShared ->
            [Name |-> <<"s","h","a","r","e","d","_","d","b">>,
             TargetDatabase |->
                [CatalogId |-> <<"2","2","2","2","2","2","2","2","2","2","2","2">>,
                 DatabaseName |-> <<"s","h","a","r","e","d","_","d","b">>]]
      [] arn = DbArnSecond ->
            [Name |-> <<"o","t","h","e","r","_","d","b">>,
             TargetDatabase |->
                [CatalogId |-> <<"3","3","3","3","3","3","3","3","3","3","3","3">>,
                 DatabaseName |-> <<"o","t","h","e","r","_","d","b">>]]

\* C7: CatalogDatabaseProvisioner Create: every create-database call has the
\* same local and target database name; for a listing whose first database
\* ARN names account A and simple name N the call is for local name N with
\* target (A, N), and a SUCCESS reports N as PhysicalResourceId.
C7_MirrorNamedAfterSharedDatabase ==
    \A i \in Inv :
        LET r == inv[i]
            listed == Listed(r, "glue:database")
            creates == CallsOf(r, "CreateDatabase")
        IN  (r.comp = CatalogDatabaseProvisioner /\ r.event.RequestType = "Create")
            => /\ \A n \in 1..Len(creates) :
                     creates[n].arg.Name = creates[n].arg.TargetDatabase.DatabaseName
               /\ (Len(listed) > 0 /\ listed[1].arn \in {DbArnShared, DbArnSecond}) =>
                     /\ \A n \in 1..Len(creates) :
                           creates[n].arg = ExpectedDatabaseInput(listed[1].arn)
                     /\ Reported(r, "SUCCESS") =>
                           /\ Len(creates) = 1
                           /\ r.sent[1].PhysicalResourceId =
                                 ExpectedDatabaseInput(listed[1].arn).Name

\* the scenario of the specification: shared_db of account 222222222222
C7_Witness ==
    \E i \in Inv :
        /\ inv[i].comp = CatalogDatabaseProvisioner
        /\ inv[i].event.ResourceShareArn = ShareArnOK
        /\ inv[i].pre.resources = SharedResources
        /\ inv[i].pre.glueDatabases = {}
        /\ glueDatabases = {ExpectedDatabaseInput(DbArnShared)}
        /\ Reported(inv[i], "SUCCESS")
        /\ inv[i].sent[1].PhysicalResourceId = <<"s","h","a","r","e","d","_","d","b">>

\* C8: CatalogDatabaseProvisioner Create, the listing answered: an empty
\* listing, or a first database ARN that does not match the database-ARN
\* pattern, gives FAILED with no create-database call; of a listing with
\* several databases the first alone decides name and target account.
C8_FirstListedDatabaseDecides ==
    \A i \in Inv :
        LET r == inv[i]
            listed == Listed(r, "glue:database")
            creates == CallsOf(r, "CreateDatabase")
        IN  (/\ r.comp = CatalogDatabaseProvisioner
             /\ r.event.RequestType = "Create"
             /\ FirstCallAnswered(r, "ListResources"))
            => /\ (Len(listed) = 0 \/ ~GlueDatabaseRegex(listed[1].arn)) =>
                     /\ creates = <<>>
                     /\ r.result = "FAILED"
                     /\ r.pc = "done" => Reported(r, "FAILED")
                     /\ glueDatabases = r.pre.glueDatabases
               /\ (Len(listed) > 1 /\ r.pc = "done") =>
                     /\ Len(creates) = 1
                     /\ creates[1].arg = ExpectedDatabaseInput(listed[1].arn)

\* two databases listed, the mirror is the first one's
C8_Witness ==
    \E i \in Inv :
        /\ inv[i].comp = CatalogDatabaseProvisioner
        /\ inv[i].pre.resources = TwoDatabases
        /\ inv[i].pre.glueDatabases = {}
        /\ glueDatabases = {ExpectedDatabaseInput(DbArnSecond)}
        /\ Reported(inv[i], "SUCCESS")

\* C6: CatalogDatabaseProvisioner, two Create invocations in a row with the
\* same inputs, the first reporting SUCCESS and the second finding the
\* database present (AlreadyExistsException): the second reports SUCCESS too,
\* with the same PhysicalResourceId, and leaves the catalog as the first left
\* it, with one mirror entry of that name.
C6_CreateTwiceIsIdempotent ==
    \A i, j \in Inv :
        LET first == inv[i]
            second == inv[j]
            creates == CallsOf(second, "CreateDatabase")
        IN  (/\ j = i + 1
             /\ first.comp = CatalogDatabaseProvisioner
             /\ first.event.RequestType = "Create"
             /\ second.event = first.event
             /\ Reported(first, "SUCCESS")
             /\ second.pc = "done"
             /\ \A later \in Inv : later > j => inv[later].pc = "idle"
             /\ Len(creates) = 1
             /\ creates[1].out = "AlreadyExistsException")
            => /\ Reported(second, "SUCCESS")
               /\ second.sent[1].PhysicalResourceId = first.sent[1].PhysicalResourceId
               /\ glueDatabases = second.pre.glueDatabases
               /\ Cardinality({ d \in glueDatabases :
                                   d.Name = second.sent[1].PhysicalResourceId }) = 1

\* created by the first invocation, found present by the second
C6_Witness ==
    \E i, j \in Inv :
        /\ j = i + 1
        /\ inv[i].event.RequestType = "Create"
        /\ inv[j].event = inv[i].event
        /\ inv[i].pre.glueDatabases = {}
        /\ Len(CallsOf(inv[i], "CreateDatabase")) = 1
        /\ CallsOf(inv[i], "CreateDatabase")[1].out = "ok"
        /\ Reported(inv[i], "SUCCESS")
        /\ Len(CallsOf(inv[j], "CreateDatabase")) = 1
        /\ CallsOf(inv[j], "CreateDatabase")[1].out = "AlreadyExistsException"
        /\ Reported(inv[j], "SUCCESS")

(***************************************************************************)
(* The account checks of TablePermissionGranter.                           *)
(***************************************************************************)
\* the account field of an ARN: the fifth of its colon-separated fields
AccountOf(arn) == At(Split(ToStr(arn), ":"), 4)

\* some principal of the list is of another account than accountId
SomePrincipalNotOf(principals, accountId) ==
    \E n \in 1..Len(principals.items) : AccountOf(principals.items[n]) # accountId

\* C11: a TablePermissionGranter Create whose StackId yields no account id, or
\* whose principals list holds a principal of another account than the one of
\* the StackId, is FAILED as soon as the handler has looked at the event, with
\* no remote call issued (no listing, no settings read or write, no grant).
C11_ForeignPrincipalFailsBeforeAnyCall ==
    \A i \in Inv :
        LET r == inv[i]
            accountId == getAccountId(r.event.StackId)
        IN  ( /\ r.comp = TablePermissionGranter
              /\ r.event.RequestType = "Create"
              /\ r.pc # "idle"
              /\ \/ accountId = Undefined
                 \/ /\ r.event.LakeFormationPrincipals.isArray
                    /\ SomePrincipalNotOf(r.event.LakeFormationPrincipals, accountId) )
            => r.calls = <<>> /\ r.result = "FAILED"

(***************************************************************************)
(* A grant that fails.                                                     *)
(***************************************************************************)
\* the data lake administrators, as a set of identifiers
Admins(settings) == Range(settings.DataLakeAdmins)

\* the GrantPermissions calls of the invocation, the last of which failed
LastGrantFailed(r) ==
    LET grants == CallsOf(r, "GrantPermissions")
    IN  Len(grants) > 0 /\ grants[Len(grants)].out # "ok"

\* C12: when the grant for the k-th distinct principal fails, the invocation
\* is FAILED; the GrantPermissions calls are those for the principals 1..k in
\* order, the first k-1 answered and their grants in place, none for a later
\* principal; PutDataLakeSettings was called once only (no restoring write),
\* and the administrators are the original ones, the targets and the executor.
C12_FailedGrantLeavesExecutorElevated ==
    \A i \in Inv :
        LET r == inv[i]
            grants == CallsOf(r, "GrantPermissions")
            k == Len(grants)
            targets == Unique(r.event.LakeFormationPrincipals.items)
        IN  ( /\ r.comp = TablePermissionGranter
              /\ r.event.RequestType = "Create"
              /\ LastGrantFailed(r) )
            => /\ r.pc \in {"respond", "done"}
               /\ r.result = "FAILED"
               /\ r.pc = "done" => Reported(r, "FAILED")
               /\ k <= Len(targets)
               /\ \A n \in 1..k : grants[n].arg.Principal = targets[n]
               /\ \A n \in 1..(k - 1) : grants[n].out = "ok"
               /\ permissions = r.pre.permissions \cup { grants[n].arg : n \in 1..(k - 1) }
               /\ Len(CallsOf(r, "PutDataLakeSettings")) = 1
               /\ Admins(dataLakeSettings) =
                     Admins(r.pre.dataLakeSettings) \cup Range(targets)
                        \cup {r.event.LambdaRoleArn}

\* the grant for the second of two distinct principals failed, after the first
\* was granted, and the invocation is over
C12_Witness ==
    \E i \in Inv :
        /\ inv[i].comp = TablePermissionGranter
        /\ inv[i].pc = "done"
        /\ LastGrantFailed(inv[i])
        /\ Len(CallsOf(inv[i], "GrantPermissions")) = 2
        /\ Cardinality(permissions) = 1
        /\ inv[i].event.LambdaRoleArn \notin Admins(inv[i].pre.dataLakeSettings)
        /\ inv[i].event.LambdaRoleArn \in Admins(dataLakeSettings)

(***************************************************************************)
(* Update and Delete requests.                                             *)
(***************************************************************************)
\* String.prototype.includes
Contains(s, part) == \E k \in 1..Len(s) : IsAt(s, k, part)

\* "not supported"
LitNotSupported ==
    <<"n","o","t"," ","s","u","p","p","o","r","t","e","d">>

\* the invocation has issued no remote call and the provider is as it was
\* when the event arrived
NothingCalled(r) == r.calls = <<>> /\ ProviderState = r.pre

\* C13: in every component an Update is FAILED without any remote call, and
\* when the invocation is over it has sent one payload, with Status FAILED and
\* a Reason that contains "not supported".
C13_UpdateIsRejected ==
    \A i \in Inv :
        LET r == inv[i]
        IN  (r.event.RequestType = "Update" /\ r.pc # "idle")
            => /\ NothingCalled(r)
               /\ r.result = "FAILED"
               /\ r.pc \in {"respond", "done"}
               /\ r.pc = "respond" => r.sent = <<>>
               /\ r.pc = "done" =>
                     /\ Len(r.sent) = 1
                     /\ r.sent[1].Status = "FAILED"
                     /\ Contains(r.sent[1].Reason, LitNotSupported)

\* an Update of the ShareAcceptor, for a share with a Pending invitation, is over
C13_Witness ==
    \E i \in Inv :
        /\ inv[i].comp = ShareAcceptor
        /\ inv[i].event.RequestType = "Update"
        /\ inv[i].event.ResourceShareArn = ShareArnOK
        /\ Len(invitations) = 1 /\ invitations[1].status = "PENDING"
        /\ inv[i].pc = "done"
        /\ Len(inv[i].sent) = 1

\* C14: a Delete of ShareAcceptor, CatalogDatabaseProvisioner or
\* TablePermissionGranter is SUCCESS whatever its ResourceProperties, a
\* malformed share ARN included, with no remote call: invitations, databases,
\* permissions and data lake settings are as they were.
C14_DeleteSucceedsWithoutCalls ==
    \A i \in Inv :
        LET r == inv[i]
        IN  ( /\ r.comp \in {ShareAcceptor, CatalogDatabaseProvisioner,
                              TablePermissionGranter}
              /\ r.event.RequestType = "Delete"
              /\ r.pc # "idle" )
            => /\ NothingCalled(r)
               /\ r.result = "SUCCESS"
               /\ r.pc \in {"respond", "done"}
               /\ r.pc = "done" => Reported(r, "SUCCESS")

\* a Delete of the TablePermissionGranter with a malformed share ARN and
\* principals that are no list is over
C14_Witness ==
    \E i \in Inv :
        /\ inv[i].comp = TablePermissionGranter
        /\ inv[i].event.RequestType = "Delete"
        /\ inv[i].event.ResourceShareArn = ShareArnWrongService
        /\ inv[i].event.LakeFormationPrincipals = NotAnArray
        /\ Reported(inv[i], "SUCCESS")

(***************************************************************************)
(* ParameterPublisher: Delete.                                             *)
(***************************************************************************)
\* the invocation issued one remote call, the DeleteParameters of the five names
OneBatchDelete(r) ==
    /\ Len(r.calls) = 1
    /\ r.calls[1].op = "DeleteParameters"
    /\ r.calls[1].arg.Names = ParameterOrder

\* C15 as stated: every Delete of the ParameterPublisher that is over has
\* issued exactly one DeleteParameters call naming the five parameters,
\* whatever the inputs of the event and whatever the store holds.
C15_EveryDeleteIssuesOneBatchDelete ==
    \A i \in Inv :
        LET r == inv[i]
        IN  ( /\ r.comp = ParameterPublisher
              /\ r.event.RequestType = "Delete"
              /\ r.pc = "done" )
            => OneBatchDelete(r)

\* C15 amended: a Delete of the ParameterPublisher whose DTRegion matches the
\* region pattern has, when it is over, issued exactly one DeleteParameters
\* call naming the five parameters, whatever the other inputs and whatever
\* the store holds; a Delete whose DTRegion does not match is FAILED with no
\* remote call; no Delete ever issues a second call.
C15_DeleteWithValidRegionIssuesOneBatchDelete ==
    \A i \in Inv :
        LET r == inv[i]
        IN  ( /\ r.comp = ParameterPublisher
              /\ r.event.RequestType = "Delete"
              /\ r.pc # "idle" )
            => /\ Len(r.calls) <= 1
               /\ IF Publisher_validateRegion(r.event.DTRegion)
                  THEN r.pc \in {"respond", "done"} => OneBatchDelete(r)
                  ELSE NothingCalled(r) /\ r.result = "FAILED"

\* a Delete with a malformed share ARN, on a store no Create ever wrote to,
\* is over and has issued its call
C15_Witness ==
    \E i \in Inv :
        /\ inv[i].comp = ParameterPublisher
        /\ inv[i].event.RequestType = "Delete"
        /\ inv[i].event.ResourceShareArn = ShareArnWrongService
        /\ inv[i].pre.parameters = NoParameters
        /\ inv[i].pc = "done"
        /\ OneBatchDelete(inv[i])

(***************************************************************************)
(* ParameterPublisher: Create.                                             *)
(***************************************************************************)
\* the order the claims state: stack id, share ARN, result bucket, database
\* name, table names
StatedOrder ==
    <<"/Detective/SLI/StackId", "/Detective/SLI/ResourceShareArn",
      "/Detective/SLI/S3Bucket", "/Detective/SLI/DatabaseName",
      "/Detective/SLI/TableNames">>

\* the parameters whose value is not the one the invocation found
Written(r) == { n \in ParameterNames : parameters[n] # r.pre.parameters[n] }

\* the PutParameter calls of the invocation that were answered
PutsAnswered(r) == SelectSeq(CallsOf(r, "PutParameter"), LAMBDA c : c.out = "ok")

\* the values the claims state, from the event and the listing of the share
StatedValue(r, n) ==
    CASE n = 1 -> r.event.PropStackId
      [] n = 2 -> r.event.ResourceShareArn
      [] n = 3 -> r.event.AthenaResultsBucket
      [] n = 4 -> DATABASE_NAME_CAPTURE_REGEX(Listed(r, "glue:database")[1].arn)
      [] OTHER -> Join([t \in 1..Len(Listed(r, "glue:table")) |->
                          TABLE_NAME_CAPTURE_REGEX(Listed(r, "glue:table")[t].arn)])

\* C16: a ParameterPublisher Create issues its PutParameter calls one after
\* the other in the order stack id, share ARN, result bucket, database name,
\* table names, each after the one before was answered; at every point the
\* parameters it has written are a prefix of that order; and when it is
\* SUCCESS the five parameters hold the stack id, the share ARN, the bucket,
\* the database name discovered and the table names discovered joined by commas.
C16_ParametersWrittenInOrder ==
    \A i \in Inv :
        LET r == inv[i]
            puts == CallsOf(r, "PutParameter")
        IN  ( /\ r.comp = ParameterPublisher
              /\ r.event.RequestType = "Create"
              /\ r.pc # "idle" )
            => /\ Len(puts) <= Len(StatedOrder)
               /\ \A n \in 1..Len(puts) : puts[n].arg.Name = StatedOrder[n]
               /\ \A n \in 1..(Len(puts) - 1) : puts[n].out = "ok"
               /\ Written(r) = { StatedOrder[n] : n \in 1..Len(PutsAnswered(r)) }
               /\ r.result = "SUCCESS" =>
                     /\ Len(PutsAnswered(r)) = Len(StatedOrder)
                     /\ \A n \in 1..Len(StatedOrder) :
                           parameters[StatedOrder[n]] = StatedValue(r, n)

\* a Create is SUCCESS and the five parameters hold the inputs, "shared_db"
\* and "cloud_trail,vpc_flow"
C16_Witness ==
    \E i \in Inv :
        /\ inv[i].comp = ParameterPublisher
        /\ inv[i].event.RequestType = "Create"
        /\ Reported(inv[i], "SUCCESS")
        /\ parameters["/Detective/SLI/StackId"] = StackIdOK
        /\ parameters["/Detective/SLI/ResourceShareArn"] = ShareArnOK
        /\ parameters["/Detective/SLI/S3Bucket"] = BucketOK
        /\ parameters["/Detective/SLI/DatabaseName"] =
              <<"s","h","a","r","e","d","_","d","b">>
        /\ parameters["/Detective/SLI/TableNames"] =
              <<"c","l","o","u","d","_","t","r","a","i","l",",","v","p","c","_","f","l","o","w">>

\* a PutParameter of the invocation met a parameter of the same name
Collided(r) ==
    \E n \in 1..Len(CallsOf(r, "PutParameter")) :
        CallsOf(r, "PutParameter")[n].out = "ParameterAlreadyExists"

\* the stack id the lookup of getStackIdParameter returned, Undefined for none
StackIdLookedUp(r) == IF r.logged = <<>> THEN Undefined ELSE r.logged[1]

\* "ParameterAlreadyExists"
LitParameterAlreadyExists ==
    <<"P","a","r","a","m","e","t","e","r","A","l","r","e","a","d","y","E","x","i","s","t","s">>

\* C17: a ParameterPublisher Create one of whose writes met a parameter of the
\* same name is FAILED with the ParameterAlreadyExists error as Reason, and
\* when the lookup of the stack-id parameter returned a stack id, the Reason
\* contains that stack id.
C17_CollisionReasonNamesStackId ==
    \A i \in Inv :
        LET r == inv[i]
        IN  ( /\ r.comp = ParameterPublisher
              /\ r.event.RequestType = "Create"
              /\ r.pc = "done"
              /\ Collided(r) )
            => /\ Reported(r, "FAILED")
               /\ Contains(r.sent[1].Reason, LitParameterAlreadyExists)
               /\ StackIdLookedUp(r) # Undefined =>
                     Contains(r.sent[1].Reason, StackIdLookedUp(r))

\* one of the four inputs of a ParameterPublisher Create fails its pattern
InputFailsItsPattern(event) ==
    \/ ~RESOURCE_SHARE_ARN_REGEX(event.ResourceShareArn)
    \/ ~RegionRegex(event.DTRegion)
    \/ ~BucketRegex(event.AthenaResultsBucket)
    \/ ~NonEmptyRegex(event.PropStackId)

\* the share of the invocation lists no database, a first database whose ARN
\* yields no name, no table, or a table whose ARN yields no name
DiscoveryFails(r) ==
    LET databases == Listed(r, "glue:database")
        tables == Listed(r, "glue:table")
    IN  \/ databases = <<>>
        \/ DATABASE_NAME_CAPTURE_REGEX(databases[1].arn) = Undefined
        \/ tables = <<>>
        \/ \E t \in 1..Len(tables) : TABLE_NAME_CAPTURE_REGEX(tables[t].arn) = Undefined

\* C18: a ParameterPublisher Create one of whose inputs (share ARN, home
\* region, result bucket, stack id) fails its pattern is FAILED with no remote
\* call; one whose inputs pass but whose discovery fails issues no
\* PutParameter, leaves the parameters as they were, and ends FAILED.
C18_NoWriteBeforeDiscoverySucceeds ==
    \A i \in Inv :
        LET r == inv[i]
        IN  ( /\ r.comp = ParameterPublisher
              /\ r.event.RequestType = "Create"
              /\ r.pc # "idle" )
            => /\ InputFailsItsPattern(r.event) =>
                     /\ NothingCalled(r)
                     /\ r.result = "FAILED"
                     /\ r.pc \in {"respond", "done"}
               /\ DiscoveryFails(r) =>
                     /\ CallsOf(r, "PutParameter") = <<>>
                     /\ parameters = r.pre.parameters
                     /\ r.pc \in {"respond", "done"} => r.result = "FAILED"
                     /\ r.pc = "done" => Reported(r, "FAILED")

\* a Create with good inputs is over, FAILED after both listings were
\* answered, the second with a table ARN that yields no name
C18_Witness ==
    \E i \in Inv :
        LET r == inv[i]
        IN  /\ r.comp = ParameterPublisher
            /\ r.event.RequestType = "Create"
            /\ ~InputFailsItsPattern(r.event)
            /\ Reported(r, "FAILED")
            /\ Len(r.calls) = 2
            /\ r.calls[2].out = "ok"
            /\ \E t \in 1..Len(Listed(r, "glue:table")) :
                  Listed(r, "glue:table")[t].arn = TableArnBad

\* C19: a ParameterPublisher Delete whose DeleteParameters call the provider
\* answered with an error is FAILED; one whose call was answered is SUCCESS
\* and none of the five names is left in the store.
C19_DeleteErrorIsNotSwallowed ==
    \A i \in Inv :
        LET r == inv[i]
            deletes == CallsOf(r, "DeleteParameters")
        IN  ( /\ r.comp = ParameterPublisher
              /\ r.event.RequestType = "Delete"
              /\ deletes # <<>> )
            => /\ r.pc \in {"respond", "done"}
               /\ IF deletes[1].out = "ok"
                  THEN /\ r.result = "SUCCESS"
                       /\ r.pc = "done" => Reported(r, "SUCCESS")
                       /\ \A n \in 1..Len(StatedOrder) :
                             parameters[StatedOrder[n]] = Undefined
                  ELSE /\ r.result = "FAILED"
                       /\ r.pc = "done" => Reported(r, "FAILED")

\* a Delete over a store that held the five parameters is over, FAILED on the
\* error of the provider, and the parameters are still there
C19_Witness ==
    \E i \in Inv :
        LET r == inv[i]
        IN  /\ r.comp = ParameterPublisher
            /\ r.event.RequestType = "Delete"
            /\ r.pre.parameters = OtherStackParameters
            /\ CallsOf(r, "DeleteParameters") # <<>>
            /\ CallsOf(r, "DeleteParameters")[1].out = "ProviderError"
            /\ Reported(r, "FAILED")
            /\ parameters = OtherStackParameters

(***************************************************************************)
(* The response.                                                           *)
(***************************************************************************)
\* the payloads sent and the context.done() calls of an invocation, as far as
\* it has come: none before sendResponse, one of each after it
OnePayload(r) ==
    /\ Len(r.sent) = r.done
    /\ IF r.pc = "done" THEN Len(r.sent) = 1 ELSE r.sent = <<>>
    /\ r.sent # <<>> =>
          r.sent[1].Status = r.result /\ r.sent[1].Status \in {"SUCCESS", "FAILED"}

\* the awaits of the handler of a component: the points where an invocation
\* waits for a remote call to be settled
AwaitsOf(comp) ==
    CASE comp = ShareAcceptor ->
            {"getInvitation", "resourceShareAlreadyAccepted", "acceptInvitation"}
      [] comp = CatalogDatabaseProvisioner ->
            {"getSharedGlueDatabaseArn", "createGlueDatabase"}
      [] comp = TablePermissionGranter ->
            {"getDatabaseName", "getLakeFormationDataLakeSettings",
             "setTemporaryDataLakeSettings", "grantLakeFormationPermission",
             "setNewDataLakeSettings"}
      [] OTHER ->
            {"getDatabaseName", "getTableNames", "saveParameter",
             "getStackIdParameter", "deleteSSMParameters"}

\* the invocation waits for its event, for a remote call of its handler (in a
\* loop: for the call of a principal or parameter there is), for the delivery
\* of its payload, or is over: it never is anywhere else
WaitsOrIsOver(r) ==
    /\ r.pc \in {"idle", "respond", "done"} \cup AwaitsOf(r.comp)
    /\ r.pc = "grantLakeFormationPermission" => r.k \in 1..Len(r.principals)
    /\ r.pc = "saveParameter" => r.k \in 1..Len(ParameterOrder)

\* a bound on the awaits an invocation still has before it is over
AwaitsLeft(r) ==
    CASE r.pc = "done" -> 0
      [] r.pc = "respond" -> 1
      [] r.pc \in {"acceptInvitation", "createGlueDatabase", "setNewDataLakeSettings",
                   "getStackIdParameter", "deleteSSMParameters"} -> 2
      [] r.pc \in {"resourceShareAlreadyAccepted", "getSharedGlueDatabaseArn"} -> 3
      [] r.pc = "getInvitation" -> 4
      [] r.pc = "grantLakeFormationPermission" -> 3 + Len(r.principals) - r.k
      [] r.pc = "setTemporaryDataLakeSettings" -> 3 + Len(r.principals)
      [] r.pc = "getLakeFormationDataLakeSettings" -> 4 + Len(r.principals)
      [] r.pc = "saveParameter" -> 3 + Len(ParameterOrder) - r.k
      [] r.pc = "getTableNames" -> 3 + Len(ParameterOrder)
      [] r.pc = "getDatabaseName" ->
            IF r.comp = TablePermissionGranter THEN 5 + Len(r.principals)
            ELSE 4 + Len(ParameterOrder)
      [] OTHER -> 6 + Len(ParameterOrder) + MaxPrincipals

\* C20: in every component, for every RequestType and every outcome of the
\* remote calls, an invocation has sent no payload before sendResponse and one
\* payload, with one context.done(), after it, whether the delivery got a
\* response or an error; it always waits for a call whose answer or error
\* continues it, or is over; and every step brings it nearer to its end, so
\* that it ends with its one payload sent once its calls are settled.
C20_OnePayloadAndCompletion ==
    /\ [](\A i \in Inv : OnePayload(inv[i]) /\ WaitsOrIsOver(inv[i]))
    /\ [][\A i \in Inv :
            inv[i]' # inv[i] => AwaitsLeft(inv[i]') < AwaitsLeft(inv[i])]_vars

\* an invocation is over whose delivery raised an error, after a remote call
\* of its own had failed
C20_Witness ==
    \E i \in Inv :
        /\ inv[i].pc = "done"
        /\ inv[i].done = 1
        /\ Len(inv[i].sent) = 1
        /\ ~inv[i].sent[1].delivered
        /\ inv[i].calls # <<>>
        /\ inv[i].calls[Len(inv[i].calls)].out = "ProviderError"

(***************************************************************************)
(* The provider's errors.                                                  *)
(***************************************************************************)
\* the two answers a handler takes for the end state it wants
Downgraded(c) ==
    \/ c.op = "CreateDatabase" /\ c.out = "AlreadyExistsException"
    \/ /\ c.op = "AcceptResourceShareInvitation"
       /\ c.out = "ResourceShareInvitationAlreadyAcceptedException"

\* the calls of r the provider answered with an error the handler does not downgrade
ErrorsKept(r) == SelectSeq(r.calls, LAMBDA c : c.out # "ok" /\ ~Downgraded(c))

\* C21: on a Create, a provider error other than AlreadyExistsException of
\* CreateDatabase and ResourceShareInvitationAlreadyAcceptedException of the
\* accept ends the invocation FAILED (ParameterAlreadyExists included, after
\* the look-up of the stack id), and the response is sent; an invocation whose
\* last call got one of the two downgraded errors is SUCCESS.
C21_OnlyTwoErrorsBecomeSuccess ==
    \A i \in Inv :
        LET r == inv[i]
        IN  r.event.RequestType = "Create" =>
              /\ ErrorsKept(r) # <<>> =>
                    /\ r.pc \in {"getStackIdParameter", "respond", "done"}
                    /\ r.pc # "getStackIdParameter" => r.result = "FAILED"
                    /\ r.pc = "done" => Reported(r, "FAILED")
              /\ r.result = "SUCCESS" => ErrorsKept(r) = <<>>
              /\ (r.calls # <<>> /\ Downgraded(r.calls[Len(r.calls)])) =>
                    /\ r.pc \in {"respond", "done"}
                    /\ r.result = "SUCCESS"
                    /\ r.pc = "done" => Reported(r, "SUCCESS")

\* a ParameterPublisher Create that met a stored parameter is over and FAILED
C21_Witness ==
    \E i \in Inv :
        LET r == inv[i]
        IN  /\ r.event.RequestType = "Create"
            /\ Reported(r, "FAILED")
            /\ \E n \in 1..Len(r.calls) :
                  r.calls[n].op = "PutParameter" /\ r.calls[n].out = "ParameterAlreadyExists"

\* the remote operations that change the provider's state
StateChanging ==
    {"AcceptResourceShareInvitation", "CreateDatabase", "PutDataLakeSettings",
     "GrantPermissions", "PutParameter"}

\* the pairs of calls of r that repeat an operation with the same argument
Repeated(r) ==
    { <<n, m>> \in (1..Len(r.calls)) \X (1..Len(r.calls)) :
        /\ n < m
        /\ r.calls[n].op = r.calls[m].op
        /\ r.calls[n].arg = r.calls[m].arg }

\* after a call that failed with an error not downgraded, r issued no
\* state-changing call, and r is on its way to FAILED
FailsAtFirstError(r) ==
    /\ \A n, m \in 1..Len(r.calls) :
          (n < m /\ r.calls[n].out # "ok" /\ ~Downgraded(r.calls[n]))
              => r.calls[m].op \notin StateChanging
    /\ ErrorsKept(r) # <<>> =>
          /\ r.pc \in {"getStackIdParameter", "respond", "done"}
          /\ r.pc # "getStackIdParameter" => r.result = "FAILED"
          /\ r.pc = "done" => Reported(r, "FAILED")

\* C22 as stated: no operation is issued twice with the same argument in one
\* invocation, and the first error not downgraded ends it FAILED with no
\* further state-changing call.
C22_NoCallRepeatedAndFirstErrorFails ==
    \A i \in Inv : Repeated(inv[i]) = {} /\ FailsAtFirstError(inv[i])

\* the elevated and the restoring write of the TablePermissionGranter: the
\* third call and the one after the grants
IsTheTwoSettingsWrites(r, n, m) ==
    /\ r.comp = TablePermissionGranter
    /\ r.calls[n].op = "PutDataLakeSettings"
    /\ n = 3
    /\ m = 4 + Len(r.principals)
    /\ r.calls[n].arg = r.temporaryDataLakeSettings
    /\ r.calls[m].arg = r.newDataLakeSettings

\* C22 (amended): the only operation issued twice with the same argument is
\* PutDataLakeSettings of the TablePermissionGranter, the elevated and the
\* restoring write, and only when the executing role is among the
\* administrators to keep (an administrator before, or a target principal);
\* the first error not downgraded ends the invocation FAILED with no further
\* state-changing call.
C22_OnlySettingsWriteRepeatsAndFirstErrorFails ==
    \A i \in Inv :
        LET r == inv[i]
        IN  /\ \A p \in Repeated(r) :
                  /\ IsTheTwoSettingsWrites(r, p[1], p[2])
                  /\ r.event.LambdaRoleArn \in Range(r.newDataLakeSettings.DataLakeAdmins)
            /\ (/\ r.comp = TablePermissionGranter
                /\ Len(CallsOf(r, "PutDataLakeSettings")) = 2
                /\ r.event.LambdaRoleArn \notin Range(r.newDataLakeSettings.DataLakeAdmins))
                  => Repeated(r) = {}
            /\ FailsAtFirstError(r)

\* a grant failed after the elevated write: the restoring write was not
\* issued, and the invocation is over and FAILED
C22_Witness ==
    \E i \in Inv :
        LET r == inv[i]
        IN  /\ r.comp = TablePermissionGranter
            /\ Reported(r, "FAILED")
            /\ Len(CallsOf(r, "PutDataLakeSettings")) = 1
            /\ Len(CallsOf(r, "GrantPermissions")) = 2
            /\ r.calls[Len(r.calls)].op = "GrantPermissions"
            /\ r.calls[Len(r.calls)].out = "ProviderError"

(***************************************************************************)
(* Two invocations of the TablePermissionGranter at once.                  *)
(***************************************************************************)
\* the two execution environments that run at the same time
Pair == {1, 2}

\* the steps of TablePermissionGranter
GranterStep(i) ==
    \/ Granter_getDatabaseName(i)
    \/ Granter_getLakeFormationDataLakeSettings(i)
    \/ Granter_setTemporaryDataLakeSettings(i)
    \/ Granter_grantLakeFormationPermission(i)
    \/ Granter_setNewDataLakeSettings(i)
    \/ sendResponse(i)

\* the target principal of the Create of invocation i
TargetOf(i) == IF i = 1 THEN Principal1 ELSE Principal2

\* the Create of invocation i: the same share and stack, its own target principal
GranterCreates(i) ==
    { [NoEvent EXCEPT !.RequestType = "Create", !.ResourceShareArn = ShareArnOK,
                      !.StackId = StackIdOK,
                      !.LakeFormationPrincipals = ArrayOf(<<TargetOf(i)>>),
                      !.LambdaRoleArn = LambdaRole] }

InitGranter == InitOf({TablePermissionGranter})

NextGranterConcurrent ==
    \E i \in Pair : ReceiveFrom(i, GranterCreates(i)) \/ GranterStep(i)

SpecGranterConcurrent == InitGranter /\ [][NextGranterConcurrent]_vars

\* invocation i took a step in which the provider answered its restoring write
RestoringWriteAnswered(i) ==
    /\ inv[i].pc = "setNewDataLakeSettings"
    /\ inv[i]' # inv[i]
    /\ inv[i]'.calls[Len(inv[i]'.calls)].out = "ok"

\* C23: the restoring write of either invocation replaces the administrators
\* by the ones it computed from its own read, whatever the other invocation
\* wrote since, and the invocation is SUCCESS; so when both have reported
\* SUCCESS the settings are the ones one of the two restoring writes carried.
C23_LastRestoringWriteWins ==
    /\ []((Reported(inv[1], "SUCCESS") /\ Reported(inv[2], "SUCCESS"))
            => dataLakeSettings \in {inv[1].newDataLakeSettings, inv[2].newDataLakeSettings})
    /\ [][\A i \in Pair :
            RestoringWriteAnswered(i)
                => /\ dataLakeSettings' = inv[i].newDataLakeSettings
                   /\ inv[i]'.result = "SUCCESS"]_vars

\* both Creates reported SUCCESS and the target principal of one of them is
\* no administrator
C23_Witness ==
    /\ Reported(inv[1], "SUCCESS")
    /\ Reported(inv[2], "SUCCESS")
    /\ inv[1].event.RequestType = "Create"
    /\ inv[2].event.RequestType = "Create"
    /\ \E i \in Pair : TargetOf(i) \notin Range(dataLakeSettings.DataLakeAdmins)

(***************************************************************************)
(* An invocation that is killed, and the invocation after it.              *)
(***************************************************************************)
\* the function's Timeout passes while invocation i waits: the execution
\* environment is stopped where it is, nothing is sent, the provider keeps
\* what the calls answered so far did
Kill(i) ==
    /\ inv[i].pc \notin {"idle", "done", "killed"}
    /\ inv' = [inv EXCEPT ![i].pc = "killed"]
    /\ UNCHANGED provider

\* invocation i is over: it responded, or it was killed
Over(r) == r.pc \in {"done", "killed"}

\* invocation i of the two receives its event once the one before it is over
ReceiveAfter(i) ==
    /\ \A j \in Pair : j < i => Over(inv[j])
    /\ ReceiveFrom(i, FewEvents(inv[i].comp))

\* the steps of ParameterPublisher
PublisherStep(i) ==
    \/ Publisher_getDatabaseName(i)
    \/ Publisher_getTableNames(i)
    \/ Publisher_saveParameter(i)
    \/ Publisher_getStackIdParameter(i)
    \/ Publisher_deleteSSMParameters(i)
    \/ sendResponse(i)

InitPublisher == InitOf({ParameterPublisher})

\* ParameterPublisher invoked twice, the second invocation after the first is over
NextPublisherRerun == \E i \in Pair : ReceiveAfter(i) \/ PublisherStep(i) \/ Kill(i)

SpecPublisherRerun == InitPublisher /\ [][NextPublisherRerun]_vars

\* the names r wrote: its PutParameter calls that were answered
NamesWritten(r) ==
    LET puts == SelectSeq(r.calls, LAMBDA c : c.op = "PutParameter" /\ c.out = "ok")
    IN  { puts[n].arg.Name : n \in 1..Len(puts) }

\* r is a Create that ended, killed or FAILED, with some of the five parameters written
EndedHalfWritten(r) ==
    /\ r.comp = ParameterPublisher
    /\ r.event.RequestType = "Create"
    /\ r.pc = "killed" \/ Reported(r, "FAILED")
    /\ NamesWritten(r) # {}
    /\ NamesWritten(r) # ParameterNames

\* the provider failed a call of r for a reason of its own
ProviderFailed(r) == \E n \in 1..Len(r.calls) : r.calls[n].out = "ProviderError"

\* C24 as stated: the Create that follows a Create ended with some but not all
\* of the five parameters written, with the same inputs and with no failure
\* of the provider's own, reports SUCCESS and leaves the five parameters in
\* the store.
C24_CreateAfterInterruptedCreateSucceeds ==
    \A i, j \in Pair :
        ( /\ j = i + 1
          /\ EndedHalfWritten(inv[i])
          /\ inv[j].event = inv[i].event
          /\ ~ProviderFailed(inv[j])
          /\ inv[j].pc = "done" )
        => /\ Reported(inv[j], "SUCCESS")
           /\ \A n \in ParameterNames : parameters[n] # Undefined

\* TablePermissionGranter invoked twice, the second invocation after the first is over
NextGranterRerun == \E i \in Pair : ReceiveAfter(i) \/ GranterStep(i) \/ Kill(i)

SpecGranterRerun == InitGranter /\ [][NextGranterRerun]_vars

\* r is a Create that ended, killed or FAILED, after its elevated settings
\* write was answered and before its restoring write was
EndedElevated(r) ==
    LET writes == CallsOf(r, "PutDataLakeSettings")
    IN  /\ r.comp = TablePermissionGranter
        /\ r.event.RequestType = "Create"
        /\ r.pc = "killed" \/ Reported(r, "FAILED")
        /\ Len(writes) >= 1
        /\ writes[1].out = "ok"
        /\ Len(writes) = 2 => writes[2].out # "ok"

\* C25 as stated: the Create that follows a Create ended between its two
\* settings writes, with the same inputs and with no failure of the
\* provider's own, reports SUCCESS and leaves as administrators the ones from
\* before the first invocation and the target principals, the executing role
\* no longer among them unless it was one of these.
C25_CreateAfterInterruptedCreateRestores ==
    \A i, j \in Pair :
        ( /\ j = i + 1
          /\ EndedElevated(inv[i])
          /\ inv[j].event = inv[i].event
          /\ ~ProviderFailed(inv[j])
          /\ inv[j].pc = "done" )
        => /\ Reported(inv[j], "SUCCESS")
           /\ Range(dataLakeSettings.DataLakeAdmins) =
                 Range(inv[i].pre.dataLakeSettings.DataLakeAdmins)
                     \cup Range(inv[i].principals)

\* the SELECT grant on the tables of the database of r for principal p
GrantOf(r, p) == [Principal |-> p, DatabaseName |-> r.databaseName]

\* C26: once a TablePermissionGranter Create has reported SUCCESS, every
\* target principal of it is an administrator and holds the grant, and stays
\* so while and after the invocation that follows (a Delete, or another
\* Create) runs.
C26_TargetsStayAfterDelete ==
    \A i \in Pair :
        LET r == inv[i]
        IN  ( /\ r.comp = TablePermissionGranter
              /\ r.event.RequestType = "Create"
              /\ Reported(r, "SUCCESS") )
            => \A p \in Range(r.principals) :
                  /\ p \in Range(dataLakeSettings.DataLakeAdmins)
                  /\ GrantOf(r, p) \in permissions

\* a Create with a target principal reported SUCCESS, and the Delete after it did
C26_Witness ==
    /\ inv[1].comp = TablePermissionGranter
    /\ inv[1].event.RequestType = "Create"
    /\ Reported(inv[1], "SUCCESS")
    /\ inv[1].principals # <<>>
    /\ inv[2].event.RequestType = "Delete"
    /\ Reported(inv[2], "SUCCESS")
    /\ inv[2].calls = <<>>
    /\ inv[2].pre.dataLakeSettings = dataLakeSettings
    /\ inv[2].pre.permissions = permissions

\* the operations of r's calls, in the order issued
OpsOf(r) == [n \in 1..Len(r.calls) |-> r.calls[n].op]

\* the calls of a TablePermissionGranter Create with n grants that ran to its end
GranterOrder(n) ==
    <<"ListResources", "GetDataLakeSettings", "PutDataLakeSettings">>
        \o [g \in 1..n |-> "GrantPermissions"] \o <<"PutDataLakeSettings">>

\* invocation i takes a step that issues a grant
IssuesGrant(i) ==
    /\ inv[i].comp = TablePermissionGranter
    /\ inv[i].pc = "grantLakeFormationPermission"
    /\ inv[i]' # inv[i]

\* C27: the calls of a TablePermissionGranter Create are at every moment a
\* prefix of: share listing, settings read, elevated write, one grant per
\* target, restoring write; a Create that reports SUCCESS issued all of them,
\* one read and two writes; and when a grant is issued the executing role
\* is among the provider's administrators.
C27_GranterCallOrder ==
    /\ [](\A i \in Inv :
            LET r == inv[i]
                stated == GranterOrder(Len(r.principals))
            IN  (r.comp = TablePermissionGranter /\ r.event.RequestType = "Create")
                => /\ Len(r.calls) <= Len(stated)
                   /\ OpsOf(r) = SubSeq(stated, 1, Len(r.calls))
                   /\ r.result = "SUCCESS" =>
                        /\ OpsOf(r) = stated
                        /\ Len(CallsOf(r, "GetDataLakeSettings")) = 1
                        /\ Len(CallsOf(r, "PutDataLakeSettings")) = 2)
    /\ [][\A i \in Inv :
            IssuesGrant(i) =>
                inv[i].event.LambdaRoleArn \in Range(dataLakeSettings.DataLakeAdmins)]_vars

\* a Create with two target principals reported SUCCESS, the executing role
\* no administrator before it or after it
C27_Witness ==
    \E i \in Inv :
        LET r == inv[i]
        IN  /\ r.comp = TablePermissionGranter
            /\ r.event.RequestType = "Create"
            /\ Reported(r, "SUCCESS")
            /\ Len(CallsOf(r, "GrantPermissions")) = 2
            /\ LambdaRole \notin Range(r.pre.dataLakeSettings.DataLakeAdmins)
            /\ LambdaRole \notin Range(dataLakeSettings.DataLakeAdmins)

\* C28: a step of a ParameterPublisher Create leaves every parameter that is
\* stored as it is; and a Create that found the five parameters of another
\* stack stored issues at most one PutParameter, which is not answered, ends
\* FAILED and leaves the five values as they were.
C28_CreateNeverOverwrites ==
    /\ [][\A i \in Inv : \A n \in ParameterNames :
            (/\ inv[i]'.comp = ParameterPublisher
             /\ inv[i]'.event.RequestType = "Create"
             /\ inv[i]' # inv[i]
             /\ parameters[n] # Undefined)
                => parameters'[n] = parameters[n]]_vars
    /\ [](\A i \in Inv :
            LET r == inv[i]
                puts == CallsOf(r, "PutParameter")
            IN  (/\ r.comp = ParameterPublisher
                 /\ r.event.RequestType = "Create"
                 /\ r.pre.parameters = OtherStackParameters)
                => /\ parameters = OtherStackParameters
                   /\ Len(puts) <= 1
                   /\ puts # <<>> =>
                        /\ puts[1].arg.Name = STACK_ID_PARAMETER
                        /\ puts[1].out # "ok"
                        /\ r.pc \in {"getStackIdParameter", "respond", "done"}
                   /\ r.pc = "done" => Reported(r, "FAILED"))

\* the Create of stack 111111111111 met the stack id of stack 444444444444
\* on its first write and is over, FAILED, the five values as they were
C28_Witness ==
    \E i \in Inv :
        LET r == inv[i]
            puts == CallsOf(r, "PutParameter")
        IN  /\ r.comp = ParameterPublisher
            /\ r.event.RequestType = "Create"
            /\ r.event.PropStackId = StackIdOK
            /\ r.pre.parameters = OtherStackParameters
            /\ Len(puts) = 1
            /\ puts[1].out = "ParameterAlreadyExists"
            /\ Reported(r, "FAILED")
            /\ parameters[STACK_ID_PARAMETER] = StackIdOther

(***************************************************************************)
(* Two invocations of the ParameterPublisher at once, for two stacks.      *)
(***************************************************************************)
\* the events of the two stacks: stack 111111111111 creates, stack
\* 444444444444 creates or deletes
PublisherEvents(i) ==
    { [NoEvent EXCEPT !.RequestType = t, !.ResourceShareArn = ShareArnOK,
                      !.DTRegion = RegionHome, !.AthenaResultsBucket = BucketOK,
                      !.PropStackId = IF i = 1 THEN StackIdOK ELSE StackIdOther] :
        t \in (IF i = 1 THEN {"Create"} ELSE {"Create", "Delete"}) }

NextPublisherConcurrent ==
    \E i \in Pair : ReceiveFrom(i, PublisherEvents(i)) \/ PublisherStep(i)

SpecPublisherConcurrent == InitPublisher /\ [][NextPublisherConcurrent]_vars

\* both invocations are Creates, and the store held none of the five names
\* before the first of them (no Delete runs, so the store only grows)
TwoCreatesOnEmptyStore ==
    /\ \A i \in Pair : inv[i].event.RequestType = "Create"
    /\ \E i \in Pair : inv[i].pre.parameters = NoParameters

\* C29 as stated: of two Creates of two stacks on an empty store at most one
\* reports SUCCESS, and one that reports FAILED has written none of the five
\* parameters.
C29_LoserOrFailedWroteNothing ==
    TwoCreatesOnEmptyStore =>
        /\ ~(Reported(inv[1], "SUCCESS") /\ Reported(inv[2], "SUCCESS"))
        /\ \A i \in Pair : Reported(inv[i], "FAILED") => NamesWritten(inv[i]) = {}

\* C29 (amended): of two Creates of two stacks on an empty store at most one
\* reports SUCCESS and at most one writes any of the five parameters: the
\* other one has written none, and so has every invocation that reports
\* FAILED without a failure of the provider's own.
C29_AtMostOneWrites ==
    TwoCreatesOnEmptyStore =>
        /\ ~(Reported(inv[1], "SUCCESS") /\ Reported(inv[2], "SUCCESS"))
        /\ NamesWritten(inv[1]) = {} \/ NamesWritten(inv[2]) = {}
        /\ \A i \in Pair :
              (Reported(inv[i], "FAILED") /\ ~ProviderFailed(inv[i]))
                  => NamesWritten(inv[i]) = {}

\* both Creates started on the empty store; one reported SUCCESS, the other
\* met the stack id of the first on its first write and reported FAILED
C29_Witness ==
    /\ \A i \in Pair :
          inv[i].event.RequestType = "Create" /\ inv[i].pre.parameters = NoParameters
    /\ \E i, j \in Pair :
          /\ Reported(inv[i], "SUCCESS")
          /\ Reported(inv[j], "FAILED")
          /\ NamesWritten(inv[j]) = {}
          /\ CallsOf(inv[j], "PutParameter") # <<>>
          /\ CallsOf(inv[j], "PutParameter")[1].out = "ParameterAlreadyExists"

\* invocation i takes the step in which the provider answers its DeleteParameters
DeleteAnswered(i) ==
    /\ inv[i].comp = ParameterPublisher
    /\ inv[i].pc = "deleteSSMParameters"
    /\ inv[i]' # inv[i]
    /\ inv[i]'.calls[Len(inv[i]'.calls)].out = "ok"

\* C30: a ParameterPublisher Delete issues no call but DeleteParameters (it
\* reads no stored stack id), and once that is answered none of the five
\* names is stored, whichever stack's id was stored, and the Delete is
\* SUCCESS.
C30_DeleteIgnoresOwner ==
    /\ [](\A i \in Inv :
            (inv[i].comp = ParameterPublisher /\ inv[i].event.RequestType = "Delete")
                => \A n \in 1..Len(inv[i].calls) : inv[i].calls[n].op = "DeleteParameters")
    /\ [][\A i \in Inv :
            DeleteAnswered(i)
                => /\ \A n \in ParameterNames : parameters'[n] = Undefined
                   /\ inv[i]'.result = "SUCCESS"]_vars

\* the Delete of stack 444444444444 found the stack id of stack 111111111111
\* stored and reported SUCCESS; the Create of stack 111111111111, running
\* meanwhile, reported SUCCESS too, and its stack id is not stored
C30_Witness ==
    /\ inv[1].event.RequestType = "Create"
    /\ inv[1].event.PropStackId = StackIdOK
    /\ Reported(inv[1], "SUCCESS")
    /\ inv[2].event.RequestType = "Delete"
    /\ inv[2].event.PropStackId = StackIdOther
    /\ inv[2].pre.parameters[STACK_ID_PARAMETER] = StackIdOK
    /\ Reported(inv[2], "SUCCESS")
    /\ parameters[STACK_ID_PARAMETER] = Undefined
    /\ parameters[TABLE_NAMES_PARAMETER] # Undefined

(***************************************************************************)
(* Several invocations of the ShareAcceptor, in any interleaving.          *)
(***************************************************************************)
\* the steps of ShareAcceptor
AcceptorStep(i) ==
    \/ Acceptor_getInvitation(i)
    \/ Acceptor_resourceShareAlreadyAccepted(i)
    \/ Acceptor_acceptInvitation(i)
    \/ sendResponse(i)

\* the Create for the share, the same for every invocation
AcceptorCreates ==
    { [NoEvent EXCEPT !.RequestType = "Create", !.ResourceShareArn = ShareArnOK] }

InitAcceptor == InitOf({ShareAcceptor})

NextAcceptorMany == \E i \in Inv : ReceiveFrom(i, AcceptorCreates) \/ AcceptorStep(i)

SpecAcceptorMany == InitAcceptor /\ [][NextAcceptorMany]_vars

PendingInvitation == <<Invitation("PENDING", InvitationArn1)>>

\* the share had one invitation, PENDING, before the first accept: it is
\* still so, or an invocation arrived while it was (no status goes back to
\* PENDING)
InitiallyPending ==
    \/ invitations = PendingInvitation
    \/ \E i \in Inv : inv[i].pc # "idle" /\ inv[i].pre.invitations = PendingInvitation

\* the accept of r was answered with ResourceShareInvitationAlreadyAcceptedException
HitAlreadyAccepted(r) ==
    /\ r.calls # <<>>
    /\ r.calls[Len(r.calls)].op = "AcceptResourceShareInvitation"
    /\ r.calls[Len(r.calls)].out = "ResourceShareInvitationAlreadyAcceptedException"

\* C31: with the invitation PENDING at first, every Create for the share that
\* is over, in any interleaving and with no failure of the provider's own,
\* reported SUCCESS, the one whose accept was answered "already accepted"
\* included, and the invitation is ACCEPTED from then on; an ACCEPTED
\* invitation stays ACCEPTED.
C31_EveryCreateSucceedsAndInvitationStaysAccepted ==
    /\ [](InitiallyPending =>
            \A i \in Inv :
                LET r == inv[i]
                IN  /\ (r.pc = "done" /\ ~ProviderFailed(r)) =>
                          /\ Reported(r, "SUCCESS")
                          /\ invitations = <<Invitation("ACCEPTED", InvitationArn1)>>
                    /\ HitAlreadyAccepted(r) =>
                          /\ r.pc \in {"respond", "done"}
                          /\ r.result = "SUCCESS")
    /\ [][\A n \in 1..Len(invitations) :
            invitations[n].status = "ACCEPTED" => invitations'[n] = invitations[n]]_vars

\* two Creates read the invitation while it was PENDING; both reported
\* SUCCESS, one of them after the provider answered "already accepted"
C31_Witness ==
    \E i, j \in Inv :
        /\ i # j
        /\ inv[i].pre.invitations = PendingInvitation
        /\ inv[j].pre.invitations = PendingInvitation
        /\ Reported(inv[i], "SUCCESS")
        /\ Reported(inv[j], "SUCCESS")
        /\ CallsOf(inv[i], "AcceptResourceShareInvitation") # <<>>
        /\ CallsOf(inv[i], "AcceptResourceShareInvitation")[1].out = "ok"
        /\ HitAlreadyAccepted(inv[j])

\* the settings without their administrators: every other field
RestOf(settings) == [settings EXCEPT !.DataLakeAdmins = <<>>]

\* C32: every settings write of a TablePermissionGranter Create carries the
\* other fields of the settings it read as they were and every administrator
\* it read; the restoring write carries the administrators read and the
\* targets, the elevated write these and the executing role, so the two
\* differ by the executing role alone, and not at all when the role was
\* read as an administrator or is a target.
C32_SettingsWritesAddOnly ==
    \A i \in Inv :
        LET r == inv[i]
            writes == CallsOf(r, "PutDataLakeSettings")
            read == r.existingDataLakeSettings
            role == r.event.LambdaRoleArn
            kept == Range(read.DataLakeAdmins) \cup Range(r.principals)
        IN  (r.comp = TablePermissionGranter /\ writes # <<>>) =>
              /\ read = r.pre.dataLakeSettings
              /\ \A n \in 1..Len(writes) :
                    /\ RestOf(writes[n].arg) = RestOf(read)
                    /\ Range(read.DataLakeAdmins) \subseteq Range(writes[n].arg.DataLakeAdmins)
              /\ Range(writes[1].arg.DataLakeAdmins) = kept \cup {role}
              /\ Len(writes) = 2 =>
                    /\ Range(writes[2].arg.DataLakeAdmins) = kept
                    /\ role \in kept <=> writes[1].arg = writes[2].arg

\* a Create with a target read an administrator, not the executing role, and
\* both its settings writes were answered
C32_Witness ==
    \E i \in Inv :
        LET r == inv[i]
            writes == CallsOf(r, "PutDataLakeSettings")
        IN  /\ r.comp = TablePermissionGranter
            /\ Reported(r, "SUCCESS")
            /\ Len(writes) = 2
            /\ r.principals # <<>>
            /\ r.existingDataLakeSettings.DataLakeAdmins = <<Admin0>>
            /\ dataLakeSettings.DataLakeAdmins = <<Admin0>> \o r.principals

\* the calls of a TablePermissionGranter Create that come before its first settings write
BeforeTheWrite == {"ListResources", "GetDataLakeSettings"}

\* r is FAILED, or on its way to, at a step before the elevated settings
\* write: in its input validation (no call), or with the share listing or the
\* settings read as its last call
FailedBeforeTheWrite(r) ==
    /\ r.comp = TablePermissionGranter
    /\ r.event.RequestType = "Create"
    /\ r.result = "FAILED"
    /\ r.calls # <<>> => r.calls[Len(r.calls)].op \in BeforeTheWrite

\* C33: a TablePermissionGranter Create that failed before its elevated
\* settings write issued no settings write and no grant, and the settings and
\* the grants are as they were when the event arrived; and an error the
\* provider answers to the share listing or to the settings read is such a
\* failure: no call follows it.
C33_FailureBeforeWriteChangesNothing ==
    \A i \in Inv :
        LET r == inv[i]
        IN  /\ FailedBeforeTheWrite(r) =>
                  /\ CallsOf(r, "PutDataLakeSettings") = <<>>
                  /\ CallsOf(r, "GrantPermissions") = <<>>
                  /\ dataLakeSettings = r.pre.dataLakeSettings
                  /\ permissions = r.pre.permissions
            /\ (r.comp = TablePermissionGranter /\ r.event.RequestType = "Create") =>
                  \A n \in 1..Len(r.calls) :
                      (r.calls[n].op \in BeforeTheWrite /\ r.calls[n].out # "ok")
                          => n = Len(r.calls) /\ r.result = "FAILED"

\* a Create whose settings read the provider failed is over and FAILED, the
\* administrators as they were
C33_Witness ==
    \E i \in Inv :
        LET r == inv[i]
        IN  /\ FailedBeforeTheWrite(r)
            /\ Reported(r, "FAILED")
            /\ Len(r.calls) = 2
            /\ r.calls[2].op = "GetDataLakeSettings"
            /\ r.calls[2].out = "ProviderError"
            /\ r.principals # <<>>
            /\ dataLakeSettings.DataLakeAdmins = <<Admin0>>

\* the four statuses handleInvitation names
NamedStatuses == {"PENDING", "ACCEPTED", "REJECTED", "EXPIRED"}

\* C34: a ShareAcceptor Create whose lookup was answered goes by the first
\* invitation alone. With an invitation ARN on it: the only accept there can
\* be names that ARN and is issued for PENDING only, whatever follows in the
\* list; REJECTED and EXPIRED are FAILED, ACCEPTED and a status that is none
\* of the four are SUCCESS, each with the lookup as the only call. Without an
\* invitation ARN on it: the next call is the resource listing and there is
\* no accept.
C34_FirstInvitationDecides ==
    \A i \in Inv :
        LET r == inv[i]
            found == LookedUp(r)
            accepts == CallsOf(r, "AcceptResourceShareInvitation")
        IN  ( /\ r.comp = ShareAcceptor
              /\ r.event.RequestType = "Create"
              /\ FirstCallAnswered(r, "GetResourceShareInvitations")
              /\ found # <<>> )
            => IF found[1].arn # Undefined
               THEN /\ \A n \in 1..Len(accepts) : accepts[n].arg = found[1].arn
                    /\ Len(accepts) <= 1
                    /\ IF found[1].status = "PENDING"
                       THEN r.pc = "acceptInvitation" \/ Len(accepts) = 1
                       ELSE /\ Len(r.calls) = 1
                            /\ r.pc \in {"respond", "done"}
                            /\ r.result = (IF found[1].status \in {"REJECTED", "EXPIRED"}
                                           THEN "FAILED" ELSE "SUCCESS")
                            /\ r.pc = "done" => Reported(r, r.result)
               ELSE /\ accepts = <<>>
                    /\ r.pc = "resourceShareAlreadyAccepted"
                          \/ (Len(r.calls) = 2 /\ r.calls[2].op = "ListResources")

\* the first invitation was EXPIRED and a PENDING one came after it: the
\* Create is over, FAILED, with no accept
C34_Witness ==
    \E i \in Inv :
        LET r == inv[i]
            found == LookedUp(r)
        IN  /\ r.comp = ShareAcceptor
            /\ r.event.RequestType = "Create"
            /\ FirstCallAnswered(r, "GetResourceShareInvitations")
            /\ Len(found) = 2
            /\ found[1].status = "EXPIRED"
            /\ found[2].status = "PENDING"
            /\ Reported(r, "FAILED")
            /\ Len(r.calls) = 1
            /\ invitations = found

\* the request types the handlers name
KnownRequestTypes == {"Create", "Update", "Delete"}

\* C35: in every component an invocation that received a RequestType that
\* is none of Create, Update and Delete is FAILED, has issued no call to a
\* provider service and left the provider as it was, and once it is over it
\* has sent one payload, with status FAILED.
C35_UnknownRequestTypeFails ==
    \A i \in Inv :
        LET r == inv[i]
        IN  (r.pc # "idle" /\ r.event.RequestType \notin KnownRequestTypes)
            => /\ r.pc \in {"respond", "done"}
               /\ r.result = "FAILED"
               /\ r.calls = <<>>
               /\ ProviderState = r.pre
               /\ Len(r.sent) <= 1
               /\ r.pc = "done" => Reported(r, "FAILED")

\* a ParameterPublisher invocation with such a RequestType, valid in all its
\* other fields, is over
C35_Witness ==
    \E i \in Inv :
        LET r == inv[i]
        IN  /\ r.comp = ParameterPublisher
            /\ r.event.RequestType \notin KnownRequestTypes
            /\ Publisher_validateRegion(r.event.DTRegion)
            /\ Reported(r, "FAILED")
            /\ r.calls = <<>>

(***************************************************************************)
(* One creation of the stack: the four custom resources of the template,   *)
(* each served by one invocation of its Lambda function. CloudFormation    *)
(* sends a resource's Create once every resource it DependsOn has reported *)
(* SUCCESS, and to no resource whose dependency has not.                   *)
(***************************************************************************)
ResourceShareAcceptor == 1
GlueDatabase == 2
DetectiveSLIParameters == 3
GlueTablesAndPermissions == 4

StackResources ==
    {ResourceShareAcceptor, GlueDatabase, DetectiveSLIParameters, GlueTablesAndPermissions}

\* the Lambda function behind the ServiceToken of each resource
ServiceToken(res) ==
    CASE res = ResourceShareAcceptor -> ShareAcceptor
      [] res = GlueDatabase -> CatalogDatabaseProvisioner
      [] res = DetectiveSLIParameters -> ParameterPublisher
      [] OTHER -> TablePermissionGranter

\* faulty variant: the tables wait for the share, not for the database
DependsOn_TablesOnShare(res) ==
    IF res = ResourceShareAcceptor THEN {} ELSE {ResourceShareAcceptor}

\* the DependsOn attribute of each resource
DependsOn(res) ==
    CASE res = ResourceShareAcceptor -> {}
      [] res = GlueDatabase -> {ResourceShareAcceptor}
      [] res = DetectiveSLIParameters -> {ResourceShareAcceptor}
      [] OTHER -> {GlueDatabase}

\* the Create event of a resource: its Properties, with the stack's parameters
Properties(res) ==
    CASE res = DetectiveSLIParameters ->
            { [NoEvent EXCEPT !.RequestType = "Create", !.ResourceShareArn = ShareArnOK,
                              !.DTRegion = RegionHome, !.AthenaResultsBucket = BucketOK,
                              !.PropStackId = StackIdOK] }
      [] res = GlueTablesAndPermissions ->
            { [NoEvent EXCEPT !.RequestType = "Create", !.ResourceShareArn = ShareArnOK,
                              !.StackId = StackIdOK,
                              !.LakeFormationPrincipals = ArrayOf(<<Principal1>>),
                              !.LambdaRoleArn = LambdaRole] }
      [] OTHER ->
            { [NoEvent EXCEPT !.RequestType = "Create", !.ResourceShareArn = ShareArnOK] }

InitStack ==
    /\ invitations \in { <<>>, <<Invitation("PENDING", InvitationArn1)>>,
                         <<Invitation("EXPIRED", InvitationArn1)>> }
    /\ resources \in { <<>>, SharedResources }
    /\ glueDatabases = {}
    /\ dataLakeSettings = Settings(<<Admin0>>)
    /\ permissions = {}
    /\ parameters \in { NoParameters, OtherStackParameters }
    /\ inv = [res \in StackResources |-> Idle(ServiceToken(res), res)]

\* the Create of res is sent when the resources it depends on are created
CreateResource(res) ==
    /\ \A dep \in DependsOn(res) : Reported(inv[dep], "SUCCESS")
    /\ ReceiveFrom(res, Properties(res))

\* the steps of the four functions on a Create
CreateStep(i) ==
    \/ Acceptor_getInvitation(i)
    \/ Acceptor_resourceShareAlreadyAccepted(i)
    \/ Acceptor_acceptInvitation(i)
    \/ Provisioner_getSharedGlueDatabaseArn(i)
    \/ Provisioner_createGlueDatabase(i)
    \/ Granter_getDatabaseName(i)
    \/ Granter_getLakeFormationDataLakeSettings(i)
    \/ Granter_setTemporaryDataLakeSettings(i)
    \/ Granter_grantLakeFormationPermission(i)
    \/ Granter_setNewDataLakeSettings(i)
    \/ Publisher_getDatabaseName(i)
    \/ Publisher_getTableNames(i)
    \/ Publisher_saveParameter(i)
    \/ Publisher_getStackIdParameter(i)
    \/ sendResponse(i)

NextStack == \E res \in StackResources : CreateResource(res) \/ CreateStep(res)

SpecStack == InitStack /\ [][NextStack]_vars

\* the invocation of comp in the stack's creation
OfStack(comp) == inv[CHOOSE res \in StackResources : inv[res].comp = comp]

Invoked(r) == r.pc # "idle"

\* C36: within one creation of the stack the CatalogDatabaseProvisioner and
\* the ParameterPublisher have received their Create only if the
\* ShareAcceptor's Create has reported SUCCESS, and the
\* TablePermissionGranter only if the CatalogDatabaseProvisioner's has; so
\* a component whose predecessor reported FAILED has received nothing.
C36_CreatesFollowTheDependencies ==
    /\ \A res \in StackResources : Invoked(inv[res]) => inv[res].event.RequestType = "Create"
    /\ Invoked(OfStack(CatalogDatabaseProvisioner)) => Reported(OfStack(ShareAcceptor), "SUCCESS")
    /\ Invoked(OfStack(ParameterPublisher)) => Reported(OfStack(ShareAcceptor), "SUCCESS")
    /\ Invoked(OfStack(TablePermissionGranter))
          => Reported(OfStack(CatalogDatabaseProvisioner), "SUCCESS")
    /\ Reported(OfStack(ShareAcceptor), "FAILED")
          => /\ ~Invoked(OfStack(CatalogDatabaseProvisioner))
             /\ ~Invoked(OfStack(ParameterPublisher))
             /\ ~Invoked(OfStack(TablePermissionGranter))
    /\ Reported(OfStack(CatalogDatabaseProvisioner), "FAILED")
          => ~Invoked(OfStack(TablePermissionGranter))

\* the share was accepted and the ParameterPublisher is running; the
\* CatalogDatabaseProvisioner reported FAILED, and the TablePermissionGranter
\* has received nothing
C36_Witness ==
    /\ Reported(OfStack(ShareAcceptor), "SUCCESS")
    /\ Reported(OfStack(CatalogDatabaseProvisioner), "FAILED")
    /\ Invoked(OfStack(ParameterPublisher))
    /\ ~Invoked(OfStack(TablePermissionGranter))
====
